---- MODULE Spec2Model ----
(***************************************************************************)
(* A model of the check-yo-self chess engine: board representation,       *)
(* make_move / unmake_move with the incrementally maintained Zobrist      *)
(* hash, the legal move generator, the transposition table, move          *)
(* ordering, the search driver and the command-line front end.            *)
(*                                                                         *)
(* Rows and columns are 0..7 as in the source (row 0 is White's back      *)
(* rank).  A 64-bit Zobrist value is represented by the set of indices    *)
(* of the keys of init_zobrist that are XOR-ed into it an odd number of   *)
(* times: XOR of two values is the symmetric difference of their sets.    *)
(* Key n is the n-th number drawn from splitmix64 by init_zobrist.        *)
(***************************************************************************)
EXTENDS Integers, Sequences, FiniteSets, TLC

(***************************************************************************)
(* Types (include/board.h, include/move.h)                                 *)
(***************************************************************************)
BOARD_SIZE == 8

PieceTypes == {"None", "Pawn", "Knight", "Bishop", "Rook", "Queen", "King"}

\* static_cast<int>(PieceType)
TypeIndex(t) ==
  CASE t = "None" -> 0 [] t = "Pawn" -> 1 [] t = "Knight" -> 2 [] t = "Bishop" -> 3
    [] t = "Rook" -> 4 [] t = "Queen" -> 5 [] t = "King" -> 6

Piece(t, c) == [type |-> t, color |-> c]

NoPiece == Piece("None", "None")

move(from_r, from_c, to_r, to_c, promo) ==
  [from_row |-> from_r, from_col |-> from_c, to_row |-> to_r, to_col |-> to_c,
   promotion |-> promo]

Opposite(c) == IF c = "White" THEN "Black" ELSE "White"

Abs(x) == IF x < 0 THEN -x ELSE x

(***************************************************************************)
(* Zobrist keys (zobrist_h.cpp)                                            *)
(***************************************************************************)
Z_PIECE(c, pt, sq) == c * 448 + pt * 64 + sq
Z_SIDE == 896
Z_CASTLING(i) == 897 + i
Z_ENPASSANT(f) == 913 + f

\* h ^= k
Xor(h, k) == IF k \in h THEN h \ {k} ELSE h \cup {k}

zc(c) == IF c = "White" THEN 0 ELSE IF c = "Black" THEN 1 ELSE -1

castle_index(b) ==
    (IF b.white_can_castle_kingside THEN 1 ELSE 0)
  + (IF b.white_can_castle_queenside THEN 2 ELSE 0)
  + (IF b.black_can_castle_kingside THEN 4 ELSE 0)
  + (IF b.black_can_castle_queenside THEN 8 ELSE 0)

sq_index(row, col) == row * 8 + col

compute_zobrist(b) ==
  LET pieces == { Z_PIECE(zc(b.squares[r][c].color), TypeIndex(b.squares[r][c].type),
                          sq_index(r, c)) :
                    <<r, c>> \in { rc \in (0..7) \X (0..7) :
                                     /\ b.squares[rc[1]][rc[2]].type # "None"
                                     /\ b.squares[rc[1]][rc[2]].color # "None" } }
      h1 == IF b.side_to_move = "Black" THEN Xor(pieces, Z_SIDE) ELSE pieces
      h2 == Xor(h1, Z_CASTLING(castle_index(b)))
  IN IF b.en_passant_col >= 0 THEN Xor(h2, Z_ENPASSANT(b.en_passant_col)) ELSE h2

(***************************************************************************)
(* make_starting_position (1_construct_board.cpp).  The function never    *)
(* assigns board.zobrist_hash; the field keeps whatever value the          *)
(* declaration of Board leaves in it, passed here as uninit_hash.          *)
(***************************************************************************)
BackRank == <<"Rook", "Knight", "Bishop", "Queen", "King", "Bishop", "Knight", "Rook">>

make_starting_position(uninit_hash) ==
  [squares |-> [r \in 0..7 |-> [c \in 0..7 |->
                  CASE r = 0 -> Piece(BackRank[c + 1], "White")
                    [] r = 1 -> Piece("Pawn", "White")
                    [] r = 6 -> Piece("Pawn", "Black")
                    [] r = 7 -> Piece(BackRank[c + 1], "Black")
                    [] OTHER -> NoPiece]],
   side_to_move |-> "White",
   white_can_castle_kingside |-> TRUE,
   white_can_castle_queenside |-> TRUE,
   black_can_castle_kingside |-> TRUE,
   black_can_castle_queenside |-> TRUE,
   en_passant_row |-> -1,
   en_passant_col |-> -1,
   zobrist_hash |-> uninit_hash]

(***************************************************************************)
(* make_move / unmake_move (make_move.cpp)                                 *)
(***************************************************************************)
SetSq(squares, r, c, p) == [squares EXCEPT ![r][c] = p]

\* A local `Undo undo;` before make_move has written to it.  captured is a
\* default-constructed Piece and was_en_passant has its initializer; every
\* other field is written by make_move before anything reads it, except
\* moved_piece_type on the early return for an empty source square.
FreshUndo ==
  [captured |-> NoPiece, moved_piece_type |-> "None",
   white_can_castle_kingside |-> FALSE, white_can_castle_queenside |-> FALSE,
   black_can_castle_kingside |-> FALSE, black_can_castle_queenside |-> FALSE,
   side_to_move |-> "None", en_passant_row |-> -1, en_passant_col |-> -1,
   was_en_passant |-> FALSE, zobrist_hash |-> {}]

PromotedType(promo) ==
  CASE promo = "QUEEN" -> "Queen" [] promo = "ROOK" -> "Rook"
    [] promo = "BISHOP" -> "Bishop" [] promo = "KNIGHT" -> "Knight"

\* Castling rights lost because a rook is captured on, or moves from, a corner.
\* rights is <<wk, wq, bk, bq>>.
RookCornerRights(rights, color, row, col) ==
  IF color = "White"
  THEN << rights[1] /\ ~(row = 0 /\ col = 7), rights[2] /\ ~(row = 0 /\ col = 0),
          rights[3], rights[4] >>
  ELSE IF color = "Black"
  THEN << rights[1], rights[2],
          rights[3] /\ ~(row = 7 /\ col = 7), rights[4] /\ ~(row = 7 /\ col = 0) >>
  ELSE rights

\* "if (cond) hash ^= key;"
XorIf(cond, hash, key) == IF cond THEN Xor(hash, key) ELSE hash

\* "if (cond) squares[row][col] = piece;"
SetSqIf(cond, squares, row, col, piece) ==
  IF cond THEN SetSq(squares, row, col, piece) ELSE squares

\* make_move without the blocks that clear a right when a rook is captured
\* on, or moves from, its corner.
RookRightsIf_never(cond, rights, color, row, col) == rights

\* The rights after a rook is captured on, or moves from, (row, col), if it is.
RookRightsIf(cond, rights, color, row, col) ==
  IF cond THEN RookCornerRights(rights, color, row, col) ELSE rights

\* The rights after the piece moved, which loses both of its colour if it
\* is the king.
KingRights(rights, isKing, color) ==
  IF ~isKing THEN rights
  ELSE IF color = "White" THEN << FALSE, FALSE, rights[3], rights[4] >>
  ELSE << rights[1], rights[2], FALSE, FALSE >>

\* The rook of a castling king goes from rookFrom to rookTo.
CastleRook(castles, squares, row, rookFrom, rookTo) ==
  IF castles
  THEN SetSq(SetSq(squares, row, rookFrom, NoPiece), row, rookTo, squares[row][rookFrom])
  ELSE squares

\* make_move without the block that sets the en passant target after a
\* pawn advanced two rows.
MovedBoard_without_target(squares, side, rights, ep_row, ep_col, hash) ==
  [squares |-> squares,
   side_to_move |-> side,
   white_can_castle_kingside |-> rights[1],
   white_can_castle_queenside |-> rights[2],
   black_can_castle_kingside |-> rights[3],
   black_can_castle_queenside |-> rights[4],
   en_passant_row |-> -1,
   en_passant_col |-> -1,
   zobrist_hash |-> hash]

\* The board once the squares, the rights and the en passant target are
\* written; the side to move and the last two keys of the hash are not yet.
MovedBoard(squares, side, rights, ep_row, ep_col, hash) ==
  [squares |-> squares,
   side_to_move |-> side,
   white_can_castle_kingside |-> rights[1],
   white_can_castle_queenside |-> rights[2],
   black_can_castle_kingside |-> rights[3],
   black_can_castle_queenside |-> rights[4],
   en_passant_row |-> ep_row,
   en_passant_col |-> ep_col,
   zobrist_hash |-> hash]

\* The end of make_move: the key of the new castling rights and the side
\* key enter the hash and the side to move changes.
SwitchSide(b) ==
  [b EXCEPT !.side_to_move = Opposite(@),
            !.zobrist_hash = Xor(Xor(@, Z_CASTLING(castle_index(b))), Z_SIDE)]

\* void make_move(Board& board, const move& m, Undo& undo): the board and the
\* undo record after the call.
make_move_undo(board, m, undo) ==
  LET u1 == [undo EXCEPT
               !.white_can_castle_kingside = board.white_can_castle_kingside,
               !.white_can_castle_queenside = board.white_can_castle_queenside,
               !.black_can_castle_kingside = board.black_can_castle_kingside,
               !.black_can_castle_queenside = board.black_can_castle_queenside,
               !.side_to_move = board.side_to_move,
               !.en_passant_row = board.en_passant_row,
               !.en_passant_col = board.en_passant_col,
               !.was_en_passant = FALSE,
               !.zobrist_hash = board.zobrist_hash]
      h1 == XorIf(board.en_passant_col # -1, board.zobrist_hash,
                  Z_ENPASSANT(board.en_passant_col))
      h2 == Xor(h1, Z_CASTLING(castle_index(board)))
      piece == board.squares[m.from_row][m.from_col]
      target == board.squares[m.to_row][m.to_col]
      pc == zc(piece.color)
  IN
  IF pc < 0
  THEN [board |-> [board EXCEPT !.en_passant_row = -1, !.en_passant_col = -1,
                                !.zobrist_hash = h2],
        undo |-> u1]
  ELSE
  LET final_type == IF piece.type = "Pawn" /\ m.promotion # "NONE"
                    THEN PromotedType(m.promotion) ELSE piece.type
      h3 == Xor(h2, Z_PIECE(pc, TypeIndex(piece.type), sq_index(m.from_row, m.from_col)))
      was_en_passant == /\ piece.type = "Pawn"
                        /\ m.from_col # m.to_col
                        /\ target.type = "None"
                        /\ u1.en_passant_row = m.to_row
                        /\ u1.en_passant_col = m.to_col
      captured == IF was_en_passant THEN board.squares[m.from_row][m.to_col] ELSE target
      h4 == XorIf(captured.type # "None", h3,
                  Z_PIECE(zc(captured.color), TypeIndex(captured.type),
                          IF was_en_passant THEN sq_index(m.from_row, m.to_col)
                          ELSE sq_index(m.to_row, m.to_col)))
      s1 == SetSqIf(was_en_passant, board.squares, m.from_row, m.to_col, NoPiece)
      r0 == << board.white_can_castle_kingside, board.white_can_castle_queenside,
               board.black_can_castle_kingside, board.black_can_castle_queenside >>
      r1 == RookRightsIf(~was_en_passant /\ captured.type = "Rook", r0,
                         captured.color, m.to_row, m.to_col)
      s2 == SetSq(s1, m.from_row, m.from_col, NoPiece)
      row == m.from_row
      delta_col == m.to_col - m.from_col
      isKing == piece.type = "King"
      r2 == KingRights(r1, isKing, piece.color)
      castles == isKing /\ Abs(delta_col) = 2
      rookFrom == IF delta_col > 0 THEN 7 ELSE 0
      rookTo == IF delta_col > 0 THEN 5 ELSE 3
      rook == s2[row][rookFrom]
      s3 == CastleRook(castles, s2, row, rookFrom, rookTo)
      h5 == XorIf(castles,
                  XorIf(castles, h4,
                        Z_PIECE(zc(rook.color), TypeIndex(rook.type), sq_index(row, rookFrom))),
                  Z_PIECE(zc(rook.color), TypeIndex(rook.type), sq_index(row, rookTo)))
      r3 == RookRightsIf(piece.type = "Rook", r2, piece.color, m.from_row, m.from_col)
      s4 == SetSq(s3, m.to_row, m.to_col, Piece(final_type, piece.color))
      h6 == Xor(h5, Z_PIECE(pc, TypeIndex(final_type), sq_index(m.to_row, m.to_col)))
      start_row == IF piece.color = "White" THEN 1 ELSE 6
      double_push == /\ piece.type = "Pawn"
                     /\ m.from_row = start_row
                     /\ Abs(m.to_row - m.from_row) = 2
      direction == IF piece.color = "White" THEN 1 ELSE -1
      h7 == XorIf(double_push, h6, Z_ENPASSANT(m.from_col))
  IN [board |-> SwitchSide(MovedBoard(s4, board.side_to_move, r3,
                                      IF double_push THEN m.from_row + direction ELSE -1,
                                      IF double_push THEN m.from_col ELSE -1, h7)),
      undo |-> [u1 EXCEPT !.was_en_passant = was_en_passant,
                          !.moved_piece_type = piece.type,
                          !.captured = captured]]

\* void make_move(Board& board, const move& m): make_move with a dummy Undo.
make_move(board, m) == make_move_undo(board, m, FreshUndo).board

\* unmake_move without "piece.type = undo.moved_piece_type": the piece that
\* goes back to the source square keeps the kind it was promoted to.
unmake_move_keeps_promoted_type(board, m, undo) ==
  LET piece == board.squares[m.to_row][m.to_col]
      row == m.from_row
      delta_col == m.to_col - m.from_col
      castles == undo.moved_piece_type = "King" /\ Abs(delta_col) = 2
      rookFrom == IF delta_col > 0 THEN 7 ELSE 0
      rookTo == IF delta_col > 0 THEN 5 ELSE 3
      s1 == IF castles
            THEN SetSq(SetSq(board.squares, row, rookFrom, board.squares[row][rookTo]),
                       row, rookTo, NoPiece)
            ELSE board.squares
      s2 == SetSq(s1, m.from_row, m.from_col, piece)
      s3 == IF ~undo.was_en_passant
            THEN SetSq(s2, m.to_row, m.to_col, undo.captured)
            ELSE SetSq(SetSq(s2, m.to_row, m.to_col, NoPiece),
                       m.from_row, m.to_col, undo.captured)
  IN [squares |-> s3,
      side_to_move |-> undo.side_to_move,
      white_can_castle_kingside |-> undo.white_can_castle_kingside,
      white_can_castle_queenside |-> undo.white_can_castle_queenside,
      black_can_castle_kingside |-> undo.black_can_castle_kingside,
      black_can_castle_queenside |-> undo.black_can_castle_queenside,
      en_passant_row |-> undo.en_passant_row,
      en_passant_col |-> undo.en_passant_col,
      zobrist_hash |-> undo.zobrist_hash]

\* void unmake_move(Board& board, const move& m, const Undo& undo)
unmake_move(board, m, undo) ==
  LET piece == board.squares[m.to_row][m.to_col]
      row == m.from_row
      delta_col == m.to_col - m.from_col
      castles == undo.moved_piece_type = "King" /\ Abs(delta_col) = 2
      rookFrom == IF delta_col > 0 THEN 7 ELSE 0
      rookTo == IF delta_col > 0 THEN 5 ELSE 3
      s1 == IF castles
            THEN SetSq(SetSq(board.squares, row, rookFrom, board.squares[row][rookTo]),
                       row, rookTo, NoPiece)
            ELSE board.squares
      s2 == SetSq(s1, m.from_row, m.from_col, Piece(undo.moved_piece_type, piece.color))
      s3 == IF ~undo.was_en_passant
            THEN SetSq(s2, m.to_row, m.to_col, undo.captured)
            ELSE SetSq(SetSq(s2, m.to_row, m.to_col, NoPiece),
                       m.from_row, m.to_col, undo.captured)
  IN [squares |-> s3,
      side_to_move |-> undo.side_to_move,
      white_can_castle_kingside |-> undo.white_can_castle_kingside,
      white_can_castle_queenside |-> undo.white_can_castle_queenside,
      black_can_castle_kingside |-> undo.black_can_castle_kingside,
      black_can_castle_queenside |-> undo.black_can_castle_queenside,
      en_passant_row |-> undo.en_passant_row,
      en_passant_col |-> undo.en_passant_col,
      zobrist_hash |-> undo.zobrist_hash]

(***************************************************************************)
(* Attack detection                                                        *)
(***************************************************************************)
is_valid_square(row, col) == row >= 0 /\ row < BOARD_SIZE /\ col >= 0 /\ col < BOARD_SIZE

knight_offsets == << <<2, 1>>, <<2, -1>>, <<-2, 1>>, <<-2, -1>>,
                     <<1, 2>>, <<1, -2>>, <<-1, 2>>, <<-1, -2>> >>
diag_dirs == << <<1, 1>>, <<1, -1>>, <<-1, 1>>, <<-1, -1>> >>
straight_dirs == << <<1, 0>>, <<-1, 0>>, <<0, 1>>, <<0, -1>> >>
king_offsets == << <<1, 0>>, <<-1, 0>>, <<0, 1>>, <<0, -1>>,
                   <<1, 1>>, <<1, -1>>, <<-1, 1>>, <<-1, -1>> >>

\* The first non-empty square met from (r, c) in steps of (dr, dc), NoPiece
\* when the edge of the board is met first: the inner `dist` loops.
RECURSIVE FirstOnRay(_, _, _, _, _)
FirstOnRay(squares, r, c, dr, dc) ==
  IF ~is_valid_square(r, c) THEN NoPiece
  ELSE IF squares[r][c].type # "None" THEN squares[r][c]
  ELSE FirstOnRay(squares, r + dr, c + dc, dr, dc)

\* Some piece of by_color, of a type in types, stands at one of the offsets.
LeaperAt(squares, row, col, offsets, types, by_color) ==
  \E i \in 1..Len(offsets) :
     LET r == row + offsets[i][1]
         c == col + offsets[i][2]
     IN /\ is_valid_square(r, c)
        /\ squares[r][c].type \in types
        /\ squares[r][c].color = by_color

\* Some ray in dirs meets first a piece of by_color of a type in types.
SliderOn(squares, row, col, dirs, types, by_color) ==
  \E i \in 1..Len(dirs) :
     LET p == FirstOnRay(squares, row + dirs[i][1], col + dirs[i][2], dirs[i][1], dirs[i][2])
     IN p.color = by_color /\ p.type \in types

PawnAttacks(squares, row, col, by_color) ==
  LET pawn_dir == IF by_color = "White" THEN -1 ELSE 1
  IN \E ac \in {col - 1, col + 1} :
        /\ is_valid_square(row + pawn_dir, ac)
        /\ squares[row + pawn_dir][ac] = Piece("Pawn", by_color)

\* attacks.cpp
rook_dirs == << <<1, 0>>, <<-1, 0>>, <<0, 1>> >>
queen_dirs == << <<1, 0>>, <<-1, 0>>, <<0, 1>>, <<0, -1>> >>

is_attacked(board, target_row, target_col, by_color) ==
  \/ PawnAttacks(board.squares, target_row, target_col, by_color)
  \/ LeaperAt(board.squares, target_row, target_col, knight_offsets, {"Knight"}, by_color)
  \/ SliderOn(board.squares, target_row, target_col, diag_dirs, {"Bishop", "Queen"}, by_color)
  \/ SliderOn(board.squares, target_row, target_col, rook_dirs, {"Rook"}, by_color)
  \/ SliderOn(board.squares, target_row, target_col, queen_dirs, {"Rook", "Queen"}, by_color)
  \/ LeaperAt(board.squares, target_row, target_col, king_offsets, {"King"}, by_color)

\* The "find the king" loops: the first square, scanning rows then columns,
\* that holds the king of the colour, as row * 8 + col; -1 if there is none.
FindKing(squares, color) ==
  LET kings == { sq \in 0..63 : squares[sq \div 8][sq % 8] = Piece("King", color) }
  IN IF kings = {} THEN -1 ELSE CHOOSE k \in kings : \A j \in kings : k <= j

\* attacks.cpp: is_in_check, used by the search and the evaluator
attacks_is_in_check(board, color) ==
  LET k == FindKing(board.squares, color)
  IN IF k = -1 THEN FALSE
     ELSE is_attacked(board, k \div 8, k % 8, Opposite(color))

\* 2_generate_legal_moves.cpp: is_in_check, used by the move generator
is_in_check(board, color) ==
  LET k == FindKing(board.squares, color)
  IN IF k = -1 THEN FALSE
     ELSE LET king_row == k \div 8
              king_col == k % 8
              enemy_color == Opposite(color)
          IN \/ PawnAttacks(board.squares, king_row, king_col, enemy_color)
             \/ LeaperAt(board.squares, king_row, king_col, knight_offsets, {"Knight"}, enemy_color)
             \/ SliderOn(board.squares, king_row, king_col, diag_dirs, {"Bishop", "Queen"}, enemy_color)
             \/ SliderOn(board.squares, king_row, king_col, straight_dirs, {"Rook", "Queen"}, enemy_color)
             \/ LeaperAt(board.squares, king_row, king_col, king_offsets, {"King"}, enemy_color)

(***************************************************************************)
(* Move generation (2_generate_legal_moves.cpp).  Move lists are sequences *)
(* in the order the code appends them.                                     *)
(***************************************************************************)
\* add_move_if_valid without the test of the colour of the piece on the
\* destination square.
add_move_if_valid_onto_own_piece(board, from_row, from_col, to_row, to_col) ==
  IF ~is_valid_square(to_row, to_col) THEN [moves |-> <<>>, blocked |-> TRUE]
  ELSE IF board.squares[to_row][to_col].type = "None"
  THEN [moves |-> << move(from_row, from_col, to_row, to_col, "NONE") >>, blocked |-> FALSE]
  ELSE [moves |-> << move(from_row, from_col, to_row, to_col, "NONE") >>, blocked |-> TRUE]

\* add_move_if_valid: the moves appended and whether the square blocks.
add_move_if_valid(board, from_row, from_col, to_row, to_col) ==
  IF ~is_valid_square(to_row, to_col) THEN [moves |-> <<>>, blocked |-> TRUE]
  ELSE IF board.squares[to_row][to_col].type = "None"
  THEN [moves |-> << move(from_row, from_col, to_row, to_col, "NONE") >>, blocked |-> FALSE]
  ELSE IF board.squares[to_row][to_col].color # board.squares[from_row][from_col].color
  THEN [moves |-> << move(from_row, from_col, to_row, to_col, "NONE") >>, blocked |-> TRUE]
  ELSE [moves |-> <<>>, blocked |-> TRUE]

pawn_move_promotion(from_row, from_col, to_row, to_col, color) ==
  IF ~( (color = "White" /\ to_row = BOARD_SIZE - 1) \/ (color = "Black" /\ to_row = 0) )
  THEN << move(from_row, from_col, to_row, to_col, "NONE") >>
  ELSE << move(from_row, from_col, to_row, to_col, "QUEEN"),
          move(from_row, from_col, to_row, to_col, "ROOK"),
          move(from_row, from_col, to_row, to_col, "BISHOP"),
          move(from_row, from_col, to_row, to_col, "KNIGHT") >>

\* generate_pawn_moves without the en passant block.
generate_pawn_moves_no_en_passant(board, row, col) ==
  LET piece == board.squares[row][col]
      direction == IF piece.color = "White" THEN 1 ELSE -1
      start_row == IF piece.color = "White" THEN 1 ELSE 6
      next_row == row + direction
      two_steps_row == row + 2 * direction
      forward ==
        IF is_valid_square(next_row, col) /\ board.squares[next_row][col].type = "None"
        THEN pawn_move_promotion(row, col, next_row, col, piece.color)
             \o (IF /\ row = start_row
                    /\ is_valid_square(two_steps_row, col)
                    /\ board.squares[two_steps_row][col].type = "None"
                 THEN << move(row, col, two_steps_row, col, "NONE") >> ELSE <<>>)
        ELSE <<>>
      capture(next_col) ==
        IF /\ is_valid_square(next_row, next_col)
           /\ board.squares[next_row][next_col].type # "None"
           /\ board.squares[next_row][next_col].color # piece.color
        THEN pawn_move_promotion(row, col, next_row, next_col, piece.color) ELSE <<>>
  IN forward \o capture(col - 1) \o capture(col + 1)

generate_pawn_moves(board, row, col) ==
  LET piece == board.squares[row][col]
      direction == IF piece.color = "White" THEN 1 ELSE -1
      start_row == IF piece.color = "White" THEN 1 ELSE 6
      next_row == row + direction
      two_steps_row == row + 2 * direction
      forward ==
        IF is_valid_square(next_row, col) /\ board.squares[next_row][col].type = "None"
        THEN pawn_move_promotion(row, col, next_row, col, piece.color)
             \o (IF /\ row = start_row
                    /\ is_valid_square(two_steps_row, col)
                    /\ board.squares[two_steps_row][col].type = "None"
                 THEN << move(row, col, two_steps_row, col, "NONE") >> ELSE <<>>)
        ELSE <<>>
      capture(next_col) ==
        IF /\ is_valid_square(next_row, next_col)
           /\ board.squares[next_row][next_col].type # "None"
           /\ board.squares[next_row][next_col].color # piece.color
        THEN pawn_move_promotion(row, col, next_row, next_col, piece.color) ELSE <<>>
      en_passant_row == IF piece.color = "White" THEN 4 ELSE 3
      en_passant(capture_col) ==
        IF /\ capture_col = board.en_passant_col
           /\ board.squares[row][board.en_passant_col].type = "Pawn"
           /\ board.squares[row][board.en_passant_col].color # piece.color
        THEN << move(row, col, next_row, capture_col, "NONE") >> ELSE <<>>
  IN forward \o capture(col - 1) \o capture(col + 1)
     \o (IF board.en_passant_col # -1 /\ row = en_passant_row
         THEN en_passant(col - 1) \o en_passant(col + 1) ELSE <<>>)

RECURSIVE LeaperMoves(_, _, _, _, _)
LeaperMoves(board, row, col, offsets, i) ==
  IF i > Len(offsets) THEN <<>>
  ELSE add_move_if_valid(board, row, col, row + offsets[i][1], col + offsets[i][2]).moves
       \o LeaperMoves(board, row, col, offsets, i + 1)

generate_knight_moves(board, row, col) == LeaperMoves(board, row, col, knight_offsets, 1)

\* One direction of generate_sliding_moves, from distance dist on.
RECURSIVE SlideRay(_, _, _, _, _, _)
SlideRay(board, row, col, d_row, d_col, dist) ==
  IF dist >= BOARD_SIZE THEN <<>>
  ELSE LET r == add_move_if_valid(board, row, col, row + d_row * dist, col + d_col * dist)
       IN IF r.blocked THEN r.moves
          ELSE r.moves \o SlideRay(board, row, col, d_row, d_col, dist + 1)

RECURSIVE generate_sliding_moves(_, _, _, _, _)
generate_sliding_moves(board, row, col, directions, i) ==
  IF i > Len(directions) THEN <<>>
  ELSE SlideRay(board, row, col, directions[i][1], directions[i][2], 1)
       \o generate_sliding_moves(board, row, col, directions, i + 1)

generate_bishop_moves(board, row, col) == generate_sliding_moves(board, row, col, diag_dirs, 1)

generate_rook_moves(board, row, col) == generate_sliding_moves(board, row, col, straight_dirs, 1)

generate_queen_moves(board, row, col) ==
  generate_sliding_moves(board, row, col, straight_dirs \o diag_dirs, 1)

\* The king stands on `via` on temp: if it is not in check there, nor on
\* `to` after its second step, the castling move is added.
CastleStep(temp, color, back_rank, via, to) ==
  IF /\ ~is_in_check(temp, color)
     /\ ~is_in_check(make_move(temp, move(back_rank, via, back_rank, to, "NONE")), color)
  THEN << move(back_rank, 4, back_rank, to, "NONE") >>
  ELSE <<>>

\* One side of generate_castling_moves: the king steps to `via`, then to `to`,
\* and must not be in check after either step.
CastleSide(board, color, back_rank, right, empties, rook_col, via, to) ==
  IF /\ right
     /\ \A c \in empties : board.squares[back_rank][c].type = "None"
     /\ board.squares[back_rank][rook_col] = Piece("Rook", color)
  THEN CastleStep(make_move(board, move(back_rank, 4, back_rank, via, "NONE")),
                  color, back_rank, via, to)
  ELSE <<>>

generate_castling_moves(board, row, col) ==
  LET king == board.squares[row][col]
      color == king.color
      back_rank == IF color = "White" THEN 0 ELSE 7
  IN IF king.type # "King" \/ row # back_rank \/ col # 4 THEN <<>>
     ELSE CastleSide(board, color, back_rank,
                     IF color = "White" THEN board.white_can_castle_kingside
                     ELSE board.black_can_castle_kingside,
                     {5, 6}, 7, 5, 6)
          \o CastleSide(board, color, back_rank,
                        IF color = "White" THEN board.white_can_castle_queenside
                        ELSE board.black_can_castle_queenside,
                        {3, 2, 1}, 0, 3, 2)

generate_king_moves(board, row, col) ==
  LeaperMoves(board, row, col, king_offsets, 1) \o generate_castling_moves(board, row, col)

\* The switch on piece.type for one square.
PieceMoves(board, row, col) ==
  LET piece == board.squares[row][col]
  IN IF piece.color # board.side_to_move THEN <<>>
     ELSE CASE piece.type = "Pawn" -> generate_pawn_moves(board, row, col)
            [] piece.type = "Knight" -> generate_knight_moves(board, row, col)
            [] piece.type = "Bishop" -> generate_bishop_moves(board, row, col)
            [] piece.type = "Rook" -> generate_rook_moves(board, row, col)
            [] piece.type = "Queen" -> generate_queen_moves(board, row, col)
            [] piece.type = "King" -> generate_king_moves(board, row, col)
            [] OTHER -> <<>>

\* The inner loop over col for one row, from col on.
RECURSIVE RowMoves(_, _, _)
RowMoves(board, row, col) ==
  IF col >= BOARD_SIZE THEN <<>>
  ELSE PieceMoves(board, row, col) \o RowMoves(board, row, col + 1)

\* The outer loop over row, from row on.
RECURSIVE pseudo_legal_moves(_, _)
pseudo_legal_moves(board, row) ==
  IF row >= BOARD_SIZE THEN <<>>
  ELSE RowMoves(board, row, 0) \o pseudo_legal_moves(board, row + 1)

\* The filter of generate_legal_moves that tests the opponent's king instead
\* of the mover's.
LeavesKingSafe_wrong_side(board, m) ==
  ~is_in_check(make_move(board, m), Opposite(board.side_to_move))

\* The filter of generate_legal_moves
LeavesKingSafe(board, m) == ~is_in_check(make_move(board, m), board.side_to_move)

generate_legal_moves(board) ==
  SelectSeq(pseudo_legal_moves(board, 0), LAMBDA m : LeavesKingSafe(board, m))

(***************************************************************************)
(* Move ordering (4_select_best_move.cpp)                                  *)
(***************************************************************************)
MATERIAL_VALUES(t) ==
  CASE t = "None" -> 0
    [] t = "Pawn" -> 100
    [] t = "Knight" -> 320
    [] t = "Bishop" -> 330
    [] t = "Rook" -> 500
    [] t = "Queen" -> 900
    [] t = "King" -> 0

is_capture_move(board, m) ==
  LET moving_piece == board.squares[m.from_row][m.from_col]
      target == board.squares[m.to_row][m.to_col]
  IN \/ target.type # "None" /\ target.color # board.side_to_move
     \/ /\ moving_piece.type = "Pawn"
        /\ m.from_col # m.to_col
        /\ target.type = "None"
        /\ board.en_passant_row = m.to_row
        /\ board.en_passant_col = m.to_col

Min2(a, b) == IF a <= b THEN a ELSE b

Max2(a, b) == IF a >= b THEN a ELSE b

\* calculate_move_score with "10 * victim_value + attacker_value".
calculate_move_score_adds_attacker(board, m, killer, history_score) ==
  LET moving_piece == board.squares[m.from_row][m.from_col]
      attacker_value == MATERIAL_VALUES(moving_piece.type)
      target == board.squares[m.to_row][m.to_col]
  IN IF m.promotion # "NONE" THEN 1000
     ELSE IF target.type # "None" /\ target.color # board.side_to_move
     THEN 10 * MATERIAL_VALUES(target.type) + attacker_value
     ELSE IF /\ moving_piece.type = "Pawn"
             /\ m.from_col # m.to_col
             /\ target.type = "None"
             /\ board.en_passant_row = m.to_row
             /\ board.en_passant_col = m.to_col
     THEN 10 * MATERIAL_VALUES("Pawn") + attacker_value
     ELSE 0

\* int calculate_move_score(const Board& board, const move& m, int depth):
\* killer is what is_killer(depth, m) returns and history_score what
\* get_history_score(board.side_to_move, m) returns.
calculate_move_score(board, m, killer, history_score) ==
  LET moving_piece == board.squares[m.from_row][m.from_col]
      attacker_value == MATERIAL_VALUES(moving_piece.type)
      target == board.squares[m.to_row][m.to_col]
  IN IF m.promotion # "NONE" THEN 1000
     ELSE IF target.type # "None" /\ target.color # board.side_to_move
     THEN 10 * MATERIAL_VALUES(target.type) - attacker_value
     ELSE IF /\ moving_piece.type = "Pawn"
             /\ m.from_col # m.to_col
             /\ target.type = "None"
             /\ board.en_passant_row = m.to_row
             /\ board.en_passant_col = m.to_col
     THEN 10 * MATERIAL_VALUES("Pawn") - attacker_value
     ELSE IF moving_piece.type = "King" /\ Abs(m.to_col - m.from_col) = 2 THEN 50
     ELSE IF moving_piece.type = "King" THEN -20
     ELSE IF moving_piece.type = "Rook" THEN -10
     ELSE IF /\ moving_piece.type \in {"Knight", "Bishop"}
             /\ \/ moving_piece.color = "White" /\ m.from_row = 0
                \/ moving_piece.color = "Black" /\ m.from_row = 7
     THEN 10
     ELSE IF killer THEN 800
     ELSE IF history_score > 0 THEN Min2(700, history_score \div 15)
     ELSE 0

(***************************************************************************)
(* Transposition table (t_table.h).  A table is the vector of its entries, *)
(* indexed from 0; the null pointer is NullEntry.                          *)
(***************************************************************************)
TT_EXACT == 0
TT_LOWER == 1
TT_UPPER == 2

\* TTentry{}
DefaultEntry ==
  [key |-> 0, depth |-> -1, value |-> 0, flag |-> TT_EXACT,
   best_move |-> move(0, 0, 0, 0, "NONE"), has_move |-> FALSE]

NullEntry == [null |-> TRUE]

NullMove == [null |-> TRUE]

\* std::size_t pow2 = 1; while (pow2 < n) pow2 <<= 1;
RECURSIVE Pow2AtLeast(_, _)
Pow2AtLeast(pow2, n) == IF pow2 < n THEN Pow2AtLeast(2 * pow2, n) ELSE pow2

\* resize_mb, from the number n of entries the megabytes hold on.
resize(n) == [i \in 0..(Pow2AtLeast(1, IF n < 1 THEN 1 ELSE n) - 1) |-> DefaultEntry]

\* mask = pow2 - 1
mask(table) == Cardinality(DOMAIN table) - 1

\* key & mask, for a mask of the form pow2 - 1
slot_of(table, key) == key % (mask(table) + 1)

\* clear()
clear(table) == [i \in DOMAIN table |-> DefaultEntry]

\* TTentry* probe(std::uint64_t key)
probe(table, key) ==
  LET e == table[slot_of(table, key)]
  IN IF e.key = key THEN e ELSE NullEntry

\* A store that replaces whatever the entry holds.
store_replaces_always(table, key, depth) == TRUE

\* "e.key != key || depth >= e.depth": the store replaces the entry.
store_replaces(table, key, depth) ==
  LET e == table[slot_of(table, key)]
  IN e.key # key \/ depth >= e.depth

\* store without "e.has_move = false" when best is null.
store_keeps_has_move(table, key, depth, value, flag, best) ==
  LET e == table[slot_of(table, key)]
  IN IF store_replaces(table, key, depth)
     THEN [table EXCEPT ![slot_of(table, key)] =
             [key |-> key, depth |-> depth, value |-> value, flag |-> flag,
              best_move |-> IF best # NullMove THEN best ELSE e.best_move,
              has_move |-> IF best # NullMove THEN TRUE ELSE e.has_move]]
     ELSE table

\* void store(std::uint64_t key, int depth, int value, TTflag flag, const move* best)
store(table, key, depth, value, flag, best) ==
  LET e == table[slot_of(table, key)]
  IN IF store_replaces(table, key, depth)
     THEN [table EXCEPT ![slot_of(table, key)] =
             [key |-> key, depth |-> depth, value |-> value, flag |-> flag,
              best_move |-> IF best # NullMove THEN best ELSE e.best_move,
              has_move |-> best # NullMove]]
     ELSE table

(***************************************************************************)
(* Text of moves (src/main.cpp parse_move).  A string is a sequence of     *)
(* one-character strings; Ord gives the character code the code computes   *)
(* with.                                                                   *)
(***************************************************************************)
Chars == << "a", "b", "c", "d", "e", "f", "g", "h",
            "1", "2", "3", "4", "5", "6", "7", "8", "q", "r", "n", "k" >>
Codes == << 97, 98, 99, 100, 101, 102, 103, 104,
            49, 50, 51, 52, 53, 54, 55, 56, 113, 114, 110, 107 >>

Ord(ch) == Codes[CHOOSE i \in 1..Len(Chars) : Chars[i] = ch]

parse_move(move_str) ==
  IF Len(move_str) < 4 THEN move(0, 0, 0, 0, "NONE")
  ELSE move(Ord(move_str[2]) - Ord("1"), Ord(move_str[1]) - Ord("a"),
            Ord(move_str[4]) - Ord("1"), Ord(move_str[3]) - Ord("a"),
            IF Len(move_str) >= 5
            THEN CASE move_str[5] = "q" -> "QUEEN"
                   [] move_str[5] = "r" -> "ROOK"
                   [] move_str[5] = "b" -> "BISHOP"
                   [] move_str[5] = "k" -> "KNIGHT"
                   [] OTHER -> "NONE"
            ELSE "NONE")

\* The lines 155-162 of parse_history: m is one of the legal moves.
is_valid(legal, m) == \E i \in 1..Len(legal) : legal[i] = m

(***************************************************************************)
(* History files replayed by parse_history: legal games, but for the two   *)
(* named for the line that is not a legal move.                            *)
(***************************************************************************)
L4(a, b, c, d) == << a, b, c, d >>

\* 1.e4 a6 2.e5 d5: White may capture en passant on d6.
HistEnPassant ==
  << L4("e","2","e","4"), L4("a","7","a","6"), L4("e","4","e","5"), L4("d","7","d","5") >>

\* 1.h4 g5 2.hxg5 h5 3.g6 h4 4.g7 Nf6: the g7 pawn promotes on g8, f8 or h8.
HistWhitePromotion ==
  << L4("h","2","h","4"), L4("g","7","g","5"), L4("h","4","g","5"), L4("h","7","h","5"),
     L4("g","5","g","6"), L4("h","5","h","4"), L4("g","6","g","7"), L4("g","8","f","6") >>

\* 1.g4 h5 2.Nf3 hxg4 3.Nd4 g3 4.Nb3 g2 5.Nd4: the g2 pawn promotes on g1, f1 or h1.
HistBlackPromotion ==
  << L4("g","2","g","4"), L4("h","7","h","5"), L4("g","1","f","3"), L4("h","5","g","4"),
     L4("f","3","d","4"), L4("g","4","g","3"), L4("d","4","b","3"), L4("g","3","g","2"),
     L4("b","3","d","4") >>

\* 1.d4 d5 2.Nc3 Nc6 3.Bf4 Bf5 4.Qd2 Qd7 5.e3 e6 6.Nf3 Nf6 7.Bd3 Bd6: both
\* sides may castle on either wing.
HistCastling ==
  << L4("d","2","d","4"), L4("d","7","d","5"), L4("b","1","c","3"), L4("b","8","c","6"),
     L4("c","1","f","4"), L4("c","8","f","5"), L4("d","1","d","2"), L4("d","8","d","7"),
     L4("e","2","e","3"), L4("e","7","e","6"), L4("g","1","f","3"), L4("g","8","f","6"),
     L4("f","1","d","3"), L4("f","8","d","6") >>

\* 1.e4 e5 2.Nf3 Qg5: White may take the queen or the e5 pawn with the knight.
HistCaptures ==
  << L4("e","2","e","4"), L4("e","7","e","5"), L4("g","1","f","3"), L4("d","8","g","5") >>

\* 1.e4 e5 2.Bc4 Nc6 3.Qh5 Nf6: White mates with Qxf7.
HistScholarsMate ==
  << L4("e","2","e","4"), L4("e","7","e","5"), L4("f","1","c","4"), L4("b","8","c","6"),
     L4("d","1","h","5"), L4("g","8","f","6") >>

\* 1.a3 d5 2.a4 d4 3.e4: Black may capture en passant on e3.
HistBlackEnPassant ==
  << L4("a","2","a","3"), L4("d","7","d","5"), L4("a","3","a","4"), L4("d","5","d","4"),
     L4("e","2","e","4") >>

\* HistCastling and 8.a3: Black may castle on either wing.
HistBlackCastling == Append(HistCastling, L4("a","2","a","3"))

\* 1.d4 Nc6 2.d5 d6 3.e4 Bg4: White may take the bishop with the queen or
\* the knight with a pawn.
HistMinorCaptures ==
  << L4("d","2","d","4"), L4("b","8","c","6"), L4("d","4","d","5"), L4("d","7","d","6"),
     L4("e","2","e","4"), L4("c","8","g","4") >>

\* 1.e4 d5 2.Bb5+: Black is in check and has five ways out.
HistCheck == << L4("e","2","e","4"), L4("d","7","d","5"), L4("f","1","b","5") >>

\* 1.e4 e6 2.Nf3 a6 3.Be2 a5 4.d4 Bb4+: White is in check with f1 and g1
\* empty and unattacked.
HistCheckBeforeCastling ==
  << L4("e","2","e","4"), L4("e","7","e","6"), L4("g","1","f","3"), L4("a","7","a","6"),
     L4("f","1","e","2"), L4("a","6","a","5"), L4("d","2","d","4"), L4("f","8","b","4") >>

\* 1.f3 e5 2.g4 Qh4: White is checkmated.
HistFoolsMate ==
  << L4("f","2","f","3"), L4("e","7","e","5"), L4("g","2","g","4"), L4("d","8","h","4") >>

\* 1.f3 e5 2.h3 Qh4+: White has the one move g3 and is mated by Qxg3.
HistForcedMate ==
  << L4("f","2","f","3"), L4("e","7","e","5"), L4("h","2","h","3"), L4("d","8","h","4") >>

\* 1.b3 f5 2.d3 Nh6 3.Bxh6 gxh6 4.c3 e6 5.c4 Bb4+ 6.Nd2 Bxd2+: White is in
\* check and takes the bishop with the queen or the king.
HistCheckedKing ==
  << L4("b","2","b","3"), L4("f","7","f","5"), L4("d","2","d","3"), L4("g","8","h","6"),
     L4("c","1","h","6"), L4("g","7","h","6"), L4("c","2","c","3"), L4("e","7","e","6"),
     L4("c","3","c","4"), L4("f","8","b","4"), L4("b","1","d","2"), L4("b","4","d","2") >>

\* 1.f3 e5 2.g4, then twice Nc6 Nc3 Nb8 Nb1: the position after 2.g4 stands
\* for the third time, and Nc6 leads to a position that has stood twice.
HistRepeated ==
  << L4("f","2","f","3"), L4("e","7","e","5"), L4("g","2","g","4"),
     L4("b","8","c","6"), L4("b","1","c","3"), L4("c","6","b","8"), L4("c","3","b","1"),
     L4("b","8","c","6"), L4("b","1","c","3"), L4("c","6","b","8"), L4("c","3","b","1") >>

\* 1.e3 a5 2.Qh5 Ra6 3.Qxa5 h5 4.h4 Rah6 5.Qxc7 f6 6.Qxd7+ Kf7 7.Qxb7 Qd3
\* 8.Qxb8 Qh7 9.Qxc8 Kg6 10.Qe6: Black is stalemated.
HistStalemate ==
  << L4("e","2","e","3"), L4("a","7","a","5"), L4("d","1","h","5"), L4("a","8","a","6"),
     L4("h","5","a","5"), L4("h","7","h","5"), L4("h","2","h","4"), L4("a","6","h","6"),
     L4("a","5","c","7"), L4("f","7","f","6"), L4("c","7","d","7"), L4("e","8","f","7"),
     L4("d","7","b","7"), L4("d","8","d","3"), L4("b","7","b","8"), L4("d","3","h","7"),
     L4("b","8","c","8"), L4("f","7","g","6"), L4("c","8","e","6") >>

\* 1.f3 e5 2.g4: Black mates with Qh4.
HistMateInOne ==
  << L4("f","2","f","3"), L4("e","7","e","5"), L4("g","2","g","4") >>

\* 1.h3 c5 2.b4 cxb4 3.Na3 bxa3 4.Bxa3 Nf6 5.Bxe7 b5 6.Bxf6 Ba6 7.Bg5 Qxg5
\* 8.Rb1 Qxg2 9.Rxb5 Qxh3 10.Nf3 Qxh1 11.Rxb8+ Rxb8 12.e3 Qxf3 13.Bg2 Rb7
\* 14.Bh1: Black mates with Qxh1, and also in two moves with Qxd1+ Kxd1 Rb1.
HistLongerMateFirst ==
  << L4("h","2","h","3"), L4("c","7","c","5"), L4("b","2","b","4"), L4("c","5","b","4"),
     L4("b","1","a","3"), L4("b","4","a","3"), L4("c","1","a","3"), L4("g","8","f","6"),
     L4("a","3","e","7"), L4("b","7","b","5"), L4("e","7","f","6"), L4("c","8","a","6"),
     L4("f","6","g","5"), L4("d","8","g","5"), L4("a","1","b","1"), L4("g","5","g","2"),
     L4("b","1","b","5"), L4("g","2","h","3"), L4("g","1","f","3"), L4("h","3","h","1"),
     L4("b","5","b","8"), L4("a","8","b","8"), L4("e","2","e","3"), L4("h","1","f","3"),
     L4("f","1","g","2"), L4("b","8","b","7"), L4("g","2","h","1") >>

\* 1.e4
HistE4 == << L4("e","2","e","4") >>

\* 1.e4 e5
HistE4E5 == << L4("e","2","e","4"), L4("e","7","e","5") >>

\* 1.c4 Nf6, a key of the opening book.
HistEnglishKnight == << L4("c","2","c","4"), L4("g","8","f","6") >>

\* Lines that are no legal moves, which parse_history replays all the same:
\* the white queen takes every piece but the kings and the white a-pawn and
\* is taken on d8 by the black king; the pawn goes to a5 and the white king
\* to b8.  White is to move with Kb8 and Pa5 against Kd8.
HistKingsAndPawn ==
  <<
     L4("d","1","a","7"), L4("a","7","b","7"), L4("b","7","c","7"), L4("c","7","d","7"),
     L4("d","7","e","7"), L4("e","7","f","7"), L4("f","7","g","7"), L4("g","7","h","7"),
     L4("h","7","a","8"), L4("a","8","b","8"), L4("b","8","c","8"), L4("c","8","f","8"),
     L4("f","8","g","8"), L4("g","8","h","8"), L4("h","8","a","1"), L4("a","1","b","1"),
     L4("b","1","c","1"), L4("c","1","f","1"), L4("f","1","g","1"), L4("g","1","h","1"),
     L4("h","1","b","2"), L4("b","2","c","2"), L4("c","2","d","2"), L4("d","2","e","2"),
     L4("e","2","f","2"), L4("f","2","g","2"), L4("g","2","h","2"), L4("h","2","d","8"),
     L4("a","2","a","4"), L4("a","4","a","5"), L4("e","1","b","8"), L4("e","8","d","8") >>

\* 1.f3, then e7e4, which is no move of the e7 pawn, then g2g4.
HistIllegalLine == << L4("f","2","f","3"), L4("e","7","e","4"), L4("g","2","g","4") >>

\* 1.f3 e5 2.g4, then a3a4 from the empty square a3.
HistEmptySquareLine ==
  << L4("f","2","f","3"), L4("e","7","e","5"), L4("g","2","g","4"), L4("a","3","a","4") >>

\* A line of two characters, then e7e5 f2f3 a7a6 g2g4.
HistShortLine ==
  << << "e", "2" >>, L4("e","7","e","5"), L4("f","2","f","3"), L4("a","7","a","6"),
     L4("g","2","g","4") >>

(***************************************************************************)
(* Opening book (openings.cpp)                                             *)
(***************************************************************************)
\* static std::string history_to_key(const std::vector<std::string>&)
RECURSIVE history_to_key(_)
history_to_key(move_history) ==
  IF move_history = <<>> THEN <<>>
  ELSE IF Len(move_history) = 1 THEN move_history[1]
  ELSE history_to_key(SubSeq(move_history, 1, Len(move_history) - 1))
         \o << "," >> \o move_history[Len(move_history)]

\* The entries of OPENING_BOOK whose key has at most two half-moves, each
\* as the half-moves of its key and its reply.
BookEntries ==
  { << <<>>, L4("e","2","e","4") >>,
    << HistE4E5, L4("g","1","f","3") >>,
    << << L4("e","2","e","4"), L4("c","7","c","5") >>, L4("g","1","f","3") >>,
    << << L4("e","2","e","4"), L4("e","7","e","6") >>, L4("d","2","d","4") >>,
    << << L4("e","2","e","4"), L4("c","7","c","6") >>, L4("d","2","d","4") >>,
    << << L4("e","2","e","4"), L4("d","7","d","5") >>, L4("e","4","d","5") >>,
    << HistE4, L4("e","7","e","5") >>,
    << << L4("e","2","e","4"), L4("g","1","f","3") >>, L4("b","8","c","6") >>,
    << << L4("e","2","e","4"), L4("f","1","c","4") >>, L4("g","8","f","6") >>,
    << << L4("e","2","e","4"), L4("d","2","d","4") >>, L4("e","7","e","5") >>,
    << << L4("e","2","e","4"), L4("b","1","c","3") >>, L4("g","8","f","6") >>,
    << << L4("d","2","d","4") >>, L4("g","8","f","6") >>,
    << << L4("c","2","c","4") >>, L4("e","7","e","5") >>,
    << << L4("g","1","f","3") >>, L4("d","7","d","5") >>,
    << << L4("e","2","e","4"), L4("g","8","f","6") >>, L4("e","4","e","5") >>,
    << << L4("e","2","e","4"), L4("d","7","d","6") >>, L4("d","2","d","4") >>,
    << << L4("e","2","e","4"), L4("g","7","g","6") >>, L4("d","2","d","4") >>,
    << << L4("c","2","c","4"), L4("g","8","f","6") >>, L4("g","7","g","6") >>,
    << << L4("c","2","c","4"), L4("c","7","c","5") >>, L4("g","1","f","3") >>,
    << << L4("g","1","f","3"), L4("g","8","f","6") >>, L4("d","7","d","5") >>,
    << << L4("b","2","b","3") >>, L4("e","7","e","5") >>,
    << << L4("b","2","b","3"), L4("e","7","e","5") >>, L4("d","7","d","5") >>,
    << << L4("g","2","g","3") >>, L4("d","7","d","5") >>,
    << << L4("f","2","f","4") >>, L4("d","7","d","5") >>,
    << << L4("d","2","d","4"), L4("f","7","f","5") >>, L4("g","1","f","3") >> }

\* OPENING_BOOK, by key
OPENING_BOOK == { << history_to_key(e[1]), e[2] >> : e \in BookEntries }

\* static move parse_uci_move(const std::string& uci)
parse_uci_move(uci) ==
  IF Len(uci) < 4 THEN move(0, 0, 0, 0, "NONE")
  ELSE move(Ord(uci[2]) - Ord("1"), Ord(uci[1]) - Ord("a"),
            Ord(uci[4]) - Ord("1"), Ord(uci[3]) - Ord("a"),
            IF Len(uci) >= 5
            THEN CASE uci[5] = "q" -> "QUEEN"
                   [] uci[5] = "r" -> "ROOK"
                   [] uci[5] = "b" -> "BISHOP"
                   [] uci[5] = "n" -> "KNIGHT"
                   [] OTHER -> "NONE"
            ELSE "NONE")

\* The entries of the book with the key of move_history.
BookHits(move_history) ==
  { e \in OPENING_BOOK : e[1] = history_to_key(move_history) }

\* move get_book_move(const std::vector<std::string>& move_history)
get_book_move(move_history) ==
  IF Len(move_history) > 24 THEN move(0, 0, 0, 0, "NONE")
  ELSE IF BookHits(move_history) # {}
  THEN parse_uci_move((CHOOSE e \in BookHits(move_history) : TRUE)[2])
  ELSE move(0, 0, 0, 0, "NONE")

(***************************************************************************)
(* Static evaluation (3_search_moves.cpp)                                  *)
(***************************************************************************)
CHECKMATE_SCORE == 100000

\* evaluate_board, reduced to its material term: "material" of the second
\* pass, added for White and subtracted for Black.  The piece-square,
\* pawn-structure, rook-file, king-safety, activity and mobility terms are
\* left out; they correct the score by centipawns, far below the mate
\* scores, and no property stated in this module depends on their value.
evaluate_board(board) ==
  LET count(t, c) ==
        Cardinality({ sq \in 0..63 : board.squares[sq \div 8][sq % 8] = Piece(t, c) })
      side(c) == MATERIAL_VALUES("Pawn") * count("Pawn", c)
                 + MATERIAL_VALUES("Knight") * count("Knight", c)
                 + MATERIAL_VALUES("Bishop") * count("Bishop", c)
                 + MATERIAL_VALUES("Rook") * count("Rook", c)
                 + MATERIAL_VALUES("Queen") * count("Queen", c)
  IN side("White") - side("Black")

\* int evaluate_terminal(const Board& board, int depth)
evaluate_terminal(board, depth) ==
  IF attacks_is_in_check(board, board.side_to_move)
  THEN -(CHECKMATE_SCORE - depth)
  ELSE 0

\* int evaluate_for_current_player(const Board& board)
evaluate_for_current_player(board) ==
  IF board.side_to_move = "White" THEN evaluate_board(board) ELSE -evaluate_board(board)

(***************************************************************************)
(* Search tables (4_select_best_move.cpp)                                  *)
(***************************************************************************)
NEG_INF == -1000000
POS_INF == 1000000
MAX_QS_DEPTH == 10
DRAW_SCORE == 0
CONTEMPT == 25
NULL_MOVE_REDUCTION == 3
NULL_MOVE_MIN_DEPTH == 3
MAX_KILLER_DEPTH == 64
MATE_THRESHOLD == 90000
CLEARLY_WINNING == 300
ASPIRATION_DELTA == 50

\* main.cpp
MAX_SEARCH_DEPTH == 6
TIME_LIMIT_MS == 800

ZeroMove == move(0, 0, 0, 0, "NONE")

\* count_repetitions: the count map holds, for each hash, the number of
\* times it stands in g_position_history.
count_repetitions(positions, hash) ==
  Cardinality({ i \in 1..Len(positions) : positions[i] = hash })

\* add_position_to_history
add_position_to_history(positions, hash) == Append(positions, hash)

\* remove_last_position_from_history that removes nothing.
remove_last_position_from_history_never(positions) == positions

\* remove_last_position_from_history
remove_last_position_from_history(positions) ==
  IF positions # <<>> THEN SubSeq(positions, 1, Len(positions) - 1) ELSE positions

\* g_killers[depth], for a table that holds the depths written since
\* clear_killers; every other depth holds two move(0, 0, 0, 0).
KillersAt(killers, depth) ==
  IF depth \in DOMAIN killers THEN killers[depth] ELSE << ZeroMove, ZeroMove >>

SameSquares(a, b) ==
  /\ a.from_row = b.from_row /\ a.from_col = b.from_col
  /\ a.to_row = b.to_row /\ a.to_col = b.to_col

\* void store_killer(int depth, const move& m)
store_killer(killers, depth, m) ==
  IF depth < 0 \/ depth >= MAX_KILLER_DEPTH THEN killers
  ELSE IF SameSquares(KillersAt(killers, depth)[1], m) THEN killers
  ELSE [d \in DOMAIN killers \cup {depth} |->
          IF d = depth THEN << m, KillersAt(killers, depth)[1] >> ELSE killers[d]]

\* bool is_killer(int depth, const move& m)
is_killer(killers, depth, m) ==
  IF depth < 0 \/ depth >= MAX_KILLER_DEPTH THEN FALSE
  ELSE \E i \in 1..2 : SameSquares(KillersAt(killers, depth)[i], m)

\* the index [color_idx][from_sq][to_sq] of g_history
HistoryIndex(side, m) ==
  << IF side = "White" THEN 0 ELSE 1,
     m.from_row * 8 + m.from_col, m.to_row * 8 + m.to_col >>

\* int get_history_score(Color side, const move& m), for a table that holds
\* the entries written since clear_history; every other entry is 0.
get_history_score(history, side, m) ==
  IF HistoryIndex(side, m) \in DOMAIN history THEN history[HistoryIndex(side, m)] ELSE 0

\* void update_history(Color side, const move& m, int depth)
update_history(history, side, m, depth) ==
  LET raised == get_history_score(history, side, m) + depth * depth
      capped == IF raised > 10000 THEN 10000 ELSE raised
  IN [k \in DOMAIN history \cup {HistoryIndex(side, m)} |->
        IF k = HistoryIndex(side, m) THEN capped ELSE history[k]]

\* bool has_non_pawn_material(const Board& board, Color side)
has_non_pawn_material(board, side) ==
  \E row \in 0..(BOARD_SIZE - 1), col \in 0..(BOARD_SIZE - 1) :
    LET p == board.squares[row][col]
    IN p.color = side /\ p.type \notin {"None", "Pawn", "King"}

\* g_tt.probe(key) on the table of the engine.  The table is held as the
\* entries stored since it was built, by key: in its 64 MB the positions of
\* one search are taken to fall on distinct entries.  An entry never
\* written holds key 0, the hash of no key.
g_tt_probe(table, key) ==
  IF key \in DOMAIN table THEN table[key]
  ELSE IF key = {} THEN DefaultEntry
  ELSE NullEntry

\* g_tt.store(key, depth, value, flag, &best_move)
g_tt_store(table, key, depth, value, flag, best) ==
  IF key \notin DOMAIN table \/ depth >= table[key].depth
  THEN [k \in DOMAIN table \cup {key} |->
          IF k = key
          THEN [key |-> key, depth |-> depth, value |-> value, flag |-> flag,
                best_move |-> best, has_move |-> TRUE]
          ELSE table[k]]
  ELSE table

\* calculate_move_score(board, m, depth) with the tables of the search
ordering_score(killers, history, board, m, depth) ==
  calculate_move_score(board, m, is_killer(killers, depth, m),
                       get_history_score(history, board.side_to_move, m))

\* std::stable_sort of moves[first..] by descending score: the moves before
\* first keep their place.
stable_sort_from(moves, first, score) ==
  LET n == Len(moves)
      rank == [i \in first..n |->
                 first + Cardinality({ j \in first..n :
                           score[j] > score[i] \/ (score[j] = score[i] /\ j < i) })]
  IN [p \in 1..n |-> IF p < first THEN moves[p]
                     ELSE moves[CHOOSE i \in first..n : rank[i] = p]]

\* The move list of select_move and negamax once ordered.
ordered_moves(killers, history, board, moves, first, depth) ==
  stable_sort_from(moves, first,
    [i \in 1..Len(moves) |-> ordering_score(killers, history, board, moves[i], depth)])

\* The swap of the transposition-table move to the front of the list.
tt_move_first(moves, tt_move) ==
  LET hits == { i \in 1..Len(moves) : moves[i] = tt_move }
  IN IF hits = {} THEN moves
     ELSE LET i == CHOOSE k \in hits : \A j \in hits : k <= j
          IN [moves EXCEPT ![1] = moves[i], ![i] = moves[1]]

\* The penalty of negamax for a position seen once before.
repetition_penalty(score) ==
  IF score > 300 THEN 150
  ELSE IF score > 200 THEN 100
  ELSE IF score > 100 THEN 75
  ELSE IF score > 50 THEN 50
  ELSE 25

\* The penalty of select_move for a position seen once before.
root_repetition_penalty(score) ==
  IF score > 300 THEN 200
  ELSE IF score > 200 THEN 120
  ELSE IF score > 100 THEN 90
  ELSE IF score > 50 THEN 60
  ELSE 30

\* std::string move_to_uci(move m)
move_to_uci(m) ==
  << Chars[m.from_col + 1], Chars[8 + m.from_row + 1],
     Chars[m.to_col + 1], Chars[8 + m.to_row + 1] >>
  \o (CASE m.promotion = "QUEEN" -> << "q" >>
        [] m.promotion = "ROOK" -> << "r" >>
        [] m.promotion = "BISHOP" -> << "b" >>
        [] m.promotion = "KNIGHT" -> << "k" >>
        [] OTHER -> << >>)

\* std::string move_to_uci(move m) of 5_generate_output.cpp, the second
\* definition of the function in the repository.
generate_output_move_to_uci(m) ==
  IF ~(/\ 0 <= m.from_col /\ m.from_col < 8 /\ 0 <= m.to_col /\ m.to_col < 8
       /\ 0 <= m.from_row /\ m.from_row < 8 /\ 0 <= m.to_row /\ m.to_row < 8)
  THEN << >>
  ELSE << Chars[m.from_col + 1], Chars[8 + m.from_row + 1],
          Chars[m.to_col + 1], Chars[8 + m.to_row + 1] >>
       \o (CASE m.promotion = "QUEEN" -> << "q" >>
             [] m.promotion = "ROOK" -> << "r" >>
             [] m.promotion = "BISHOP" -> << "b" >>
             [] m.promotion = "KNIGHT" -> << "n" >>
             [] OTHER -> << >>)

(***************************************************************************)
(* Bounds                                                                  *)
(***************************************************************************)
\* The number of moves made on the board and not yet unmade.
MaxPly == 1

\* The number of entries the transposition table is sized for.
TTEntries == 1

\* The depth of the last iteration the clock lets find_best_move begin, and
\* the largest max_depth it is called with when it has no time limit.
MaxDepth == 2

\* The depth of the last iteration the clock lets find_best_move begin on a
\* board of at most MaxBarePieces pieces.
MaxBareDepth == 5

MaxBarePieces == 3

\* The values board.zobrist_hash may hold when make_starting_position
\* returns: zero, or some other value (key -1 is no key of init_zobrist).
UninitHashes == { {}, {-1} }

(***************************************************************************)
(* State                                                                   *)
(***************************************************************************)
VARIABLES
  board,        \* the Board being played on
  legal_moves,  \* the vector generate_legal_moves returned to the current frame
  pc,           \* where the program is
  lines,        \* the lines of the history file not yet read
  undo_stack,   \* the frames that made a move and have not unmade it yet
  move_scores,  \* calculate_move_score of each move of legal_moves, once ordered
  last,         \* the last operation applied to the board and what it saw
  tt,           \* the entries of a TranspositionTable
  tt_stored,    \* for each entry, the arguments of the store that wrote it last
  tt_probed,    \* the last probe, if no store or clear came after it
  perft_stack,  \* the nodes of the game tree being counted: [board, moves, next]
  perft_count,  \* the nodes counted so far at depths 1, 2, 3 and 4
  g_position_history, \* the hashes of the positions of the game and of the line searched
  stack,        \* the calls of the search in progress, the callee last
  ret,          \* the value the last call returned, until its caller takes it
  temp,         \* the board the search makes and unmakes its moves on
  time_up,      \* time_is_up() has returned true
  g_search_aborted,
  g_tt,         \* the entries of g_tt written so far, by key
  g_killers,    \* the killer moves written so far, by depth
  g_history,    \* the history scores written so far, by [color][from][to]
  call,         \* the arguments max_depth and time_limit_ms of find_best_move
  best_move,    \* best_move of main
  search_score, \* best_score of find_best_move when it returned
  search_called,\* main has called find_best_move
  exit_code,    \* the value main returned, once it has
  output_file   \* whether the output file was opened, and its lines

playVars == << board, legal_moves, lines, undo_stack, move_scores, last >>

ttVars == << tt, tt_stored, tt_probed >>

perftVars == << perft_stack, perft_count >>

\* The variables the actions on the board leave alone.
NoOp == [op |-> "none"]

searchRest ==
  << stack, ret, temp, time_up, g_search_aborted, g_tt, g_killers, g_history, call,
     best_move, search_score, search_called, exit_code, output_file >>

searchVars == << g_position_history, searchRest >>

otherVars == << ttVars, perftVars, searchVars >>

vars == << pc, playVars, ttVars, perftVars, searchVars >>

NoRet == [none |-> TRUE]

\* find_best_move(board, MAX_SEARCH_DEPTH, TIME_LIMIT_MS) of main
MainCall == [max_depth |-> MAX_SEARCH_DEPTH, time_limit_ms |-> TIME_LIMIT_MS]

NotOpened == [is_open |-> FALSE, text |-> <<>>]

\* The tables of the other specifications, untouched.
TablesIdle ==
  /\ tt = resize(TTEntries)
  /\ tt_stored = [i \in DOMAIN tt |-> NoOp]
  /\ tt_probed = NoOp
  /\ perft_stack = <<>>
  /\ perft_count = << 0, 0, 0, 0 >>

\* parse_history has cleared the position history and added the starting
\* position; no search has begun.
SearchIdle ==
  /\ g_position_history = << compute_zobrist(make_starting_position({})) >>
  /\ stack = <<>>
  /\ ret = NoRet
  /\ temp = <<>>
  /\ time_up = FALSE
  /\ g_search_aborted = FALSE
  /\ g_tt = <<>>
  /\ g_killers = <<>>
  /\ g_history = <<>>
  /\ call = MainCall
  /\ best_move = ZeroMove
  /\ search_score = NEG_INF
  /\ search_called = FALSE
  /\ exit_code = <<>>
  /\ output_file = NotOpened

(***************************************************************************)
(* Spec: parse_history replays a history file, then legal moves are        *)
(* generated, made and unmade on the board as main and the search do.      *)
(***************************************************************************)
PlayHistories ==
  { <<>>, HistEnPassant, HistBlackEnPassant, HistWhitePromotion, HistBlackPromotion,
    HistCastling, HistBlackCastling, HistCaptures, HistMinorCaptures,
    HistScholarsMate, HistCheck, HistFoolsMate, HistStalemate, HistCheckBeforeCastling,
    HistEnglishKnight }

Init ==
  /\ \E h \in UninitHashes : board = make_starting_position(h)
  /\ legal_moves = <<>>
  /\ pc = "parse"
  /\ lines \in PlayHistories
  /\ undo_stack = <<>>
  /\ move_scores = <<>>
  /\ last = NoOp
  /\ tt = resize(TTEntries)
  /\ tt_stored = [i \in DOMAIN tt |-> NoOp]
  /\ tt_probed = NoOp
  /\ perft_stack = <<>>
  /\ perft_count = << 0, 0, 0, 0 >>
  /\ SearchIdle

\* One iteration of the loop of parse_history.
ParseLine ==
  /\ pc = "parse"
  /\ lines # <<>>
  /\ LET m == parse_move(Head(lines))
     IN /\ board' = make_move(board, m)
        /\ last' = [op |-> "replay", m |-> m, before |-> board,
                    valid |-> is_valid(generate_legal_moves(board), m),
                    read |-> Append(IF last.op = "replay" THEN last.read ELSE <<>>,
                                    Head(lines))]
        /\ g_position_history' =
             add_position_to_history(g_position_history, compute_zobrist(make_move(board, m)))
  /\ lines' = Tail(lines)
  /\ UNCHANGED << legal_moves, pc, undo_stack, move_scores, ttVars, perftVars, searchRest >>

\* The history file is exhausted: parse_history returns the board.
ParseDone ==
  /\ pc = "parse"
  /\ lines = <<>>
  /\ pc' = "generate"
  /\ UNCHANGED << board, legal_moves, lines, undo_stack, move_scores, last, otherVars >>

\* std::vector<move> moves = generate_legal_moves(board);
Generate ==
  /\ pc = "generate"
  /\ legal_moves' = generate_legal_moves(board)
  /\ pc' = "play"
  /\ UNCHANGED << board, lines, undo_stack, move_scores, last, otherVars >>

\* The scores the sort of the move list compares, in a search whose killer
\* and history tables are clear.
ScoreMoves ==
  /\ pc = "play"
  /\ legal_moves # <<>>
  /\ move_scores = <<>>
  /\ move_scores' = [i \in 1..Len(legal_moves) |->
                       calculate_move_score(board, legal_moves[i], FALSE, 0)]
  /\ UNCHANGED << board, legal_moves, pc, lines, undo_stack, last, otherVars >>

\* Undo undo; make_move(board, candidate, undo); for a move of the vector.
Make ==
  /\ pc = "play"
  /\ Len(undo_stack) < MaxPly
  /\ \E i \in 1..Len(legal_moves) :
       LET m == legal_moves[i]
           r == make_move_undo(board, m, FreshUndo)
       IN /\ board' = r.board
          /\ undo_stack' = Append(undo_stack,
               [m |-> m, undo |-> r.undo, before |-> board, moves |-> legal_moves,
                scores |-> move_scores])
          /\ last' = [op |-> "make", m |-> m, before |-> board]
  /\ legal_moves' = <<>>
  /\ move_scores' = <<>>
  /\ pc' = "generate"
  /\ UNCHANGED << lines, otherVars >>

\* unmake_move(board, candidate, undo); for the last move made.
Unmake ==
  /\ pc \in {"generate", "play"}
  /\ undo_stack # <<>>
  /\ LET top == undo_stack[Len(undo_stack)]
     IN /\ board' = unmake_move(board, top.m, top.undo)
        /\ last' = [op |-> "unmake", m |-> top.m, before |-> top.before]
        /\ legal_moves' = top.moves
        /\ move_scores' = top.scores
  /\ undo_stack' = SubSeq(undo_stack, 1, Len(undo_stack) - 1)
  /\ pc' = "play"
  /\ UNCHANGED << lines, otherVars >>

Next == ParseLine \/ ParseDone \/ Generate \/ ScoreMoves \/ Make \/ Unmake

Spec == Init /\ [][Next]_vars

(***************************************************************************)
(* SpecTT: stores, probes and clears on one TranspositionTable, as the     *)
(* search issues them.                                                     *)
(***************************************************************************)
TTKeys == {0, 1, 2}

TTDepths == {0, 1}

TTValues == {-7, 7}

TTFlags == {TT_EXACT, TT_LOWER, TT_UPPER}

TTMoves == {NullMove, move(1, 4, 3, 4, "NONE")}

InitTT ==
  /\ board = make_starting_position({})
  /\ legal_moves = <<>>
  /\ pc = "tt"
  /\ lines = <<>>
  /\ undo_stack = <<>>
  /\ move_scores = <<>>
  /\ last = NoOp
  /\ tt = resize(TTEntries)
  /\ tt_stored = [i \in DOMAIN tt |-> NoOp]
  /\ tt_probed = NoOp
  /\ perft_stack = <<>>
  /\ perft_count = << 0, 0, 0, 0 >>
  /\ SearchIdle

\* tt.store(key, depth, value, flag, best)
Store ==
  /\ pc = "tt"
  /\ \E key \in TTKeys, depth \in TTDepths, value \in TTValues, flag \in TTFlags,
        best \in TTMoves :
       /\ tt' = store(tt, key, depth, value, flag, best)
       /\ tt_stored' =
            IF store_replaces(tt, key, depth)
            THEN [tt_stored EXCEPT ![slot_of(tt, key)] =
                    [op |-> "store", key |-> key, depth |-> depth, value |-> value,
                     flag |-> flag, best |-> best]]
            ELSE tt_stored
  /\ tt_probed' = NoOp
  /\ UNCHANGED << pc, playVars, perftVars, searchVars >>

\* TTentry* e = tt.probe(key)
Probe ==
  /\ pc = "tt"
  /\ \E key \in TTKeys : tt_probed' = [op |-> "probe", key |-> key, entry |-> probe(tt, key)]
  /\ UNCHANGED << pc, playVars, perftVars, searchVars, tt, tt_stored >>

\* tt.clear()
Clear ==
  /\ pc = "tt"
  /\ tt' = clear(tt)
  /\ tt_stored' = [i \in DOMAIN tt |-> NoOp]
  /\ tt_probed' = NoOp
  /\ UNCHANGED << pc, playVars, perftVars, searchVars >>

NextTT == Store \/ Probe \/ Clear

SpecTT == InitTT /\ [][NextTT]_vars

(***************************************************************************)
(* SpecPerft: the game tree of make_starting_position is walked to depth 4 *)
(* with generate_legal_moves and make_move, and its nodes are counted.     *)
(***************************************************************************)
PerftNode(b) == [board |-> b, moves |-> generate_legal_moves(b), next |-> 1]

AddAt(count, depth, n) == [count EXCEPT ![depth] = @ + n]

InitPerft ==
  /\ board = make_starting_position({})
  /\ legal_moves = <<>>
  /\ pc = "perft"
  /\ lines = <<>>
  /\ undo_stack = <<>>
  /\ move_scores = <<>>
  /\ last = NoOp
  /\ tt = resize(TTEntries)
  /\ tt_stored = [i \in DOMAIN tt |-> NoOp]
  /\ tt_probed = NoOp
  /\ perft_stack = <<>>
  /\ perft_count = << 0, 0, 0, 0 >>
  /\ SearchIdle

\* The moves of the node reached at depth are counted; the node is walked
\* in turn unless its moves are the leaves of depth 4.
PerftEnter(depth, walked, node) ==
  /\ perft_count' = AddAt(perft_count, depth, Len(node.moves))
  /\ perft_stack' = IF depth < 4 THEN Append(walked, node) ELSE walked

\* The moves of the root are generated and counted as the nodes of depth 1.
PerftRoot ==
  /\ pc = "perft"
  /\ perft_stack = <<>>
  /\ PerftEnter(1, <<>>, PerftNode(board))
  /\ pc' = "walk"
  /\ UNCHANGED << playVars, ttVars, searchVars >>

\* The next move of the deepest node is made on a copy of its board and the
\* moves of the new node are generated and counted; the new node is walked
\* in turn unless its moves are the leaves of depth 4.
PerftVisit ==
  /\ pc = "walk"
  /\ perft_stack # <<>>
  /\ LET depth == Len(perft_stack)
         top == perft_stack[depth]
     IN /\ top.next <= Len(top.moves)
        /\ PerftEnter(depth + 1, [perft_stack EXCEPT ![depth].next = @ + 1],
                      PerftNode(make_move(top.board, top.moves[top.next])))
  /\ UNCHANGED << pc, playVars, ttVars, searchVars >>

\* Every move of the deepest node was made: the walk returns to its parent.
PerftReturn ==
  /\ pc = "walk"
  /\ perft_stack # <<>>
  /\ perft_stack[Len(perft_stack)].next > Len(perft_stack[Len(perft_stack)].moves)
  /\ perft_stack' = SubSeq(perft_stack, 1, Len(perft_stack) - 1)
  /\ pc' = IF Len(perft_stack) = 1 THEN "counted" ELSE "walk"
  /\ UNCHANGED << perft_count, playVars, ttVars, searchVars >>

NextPerft == PerftRoot \/ PerftVisit \/ PerftReturn

SpecPerft == InitPerft /\ [][NextPerft]_vars

(***************************************************************************)
(* The search (4_select_best_move.cpp).  The calls in progress are the     *)
(* frames of stack, the callee last; a frame holds the locals of its call  *)
(* and the place it has reached.  The operators below map the state of the *)
(* search, a record of the variables a call may write, to the state after  *)
(* one step.                                                               *)
(***************************************************************************)
SearchState ==
  [stack |-> stack, ret |-> ret, temp |-> temp, aborted |-> g_search_aborted,
   tt |-> g_tt, killers |-> g_killers, history |-> g_history,
   positions |-> g_position_history]

Top(s) == s.stack[Len(s.stack)]

SetTop(s, f) == [s EXCEPT !.stack[Len(s.stack)] = f]

Push(s, f) == [s EXCEPT !.stack = Append(@, f)]

\* return v; of the call on top of the stack
Return(s, v) ==
  [s EXCEPT !.stack = SubSeq(@, 1, Len(@) - 1), !.ret = [value |-> v]]

\* The value the callee returned, taken by the caller.
Taken(s) == [s EXCEPT !.ret = NoRet]

\* int quiescence_search(Board& board, int alpha, int beta, int qs_depth)
QsFrame(alpha, beta, qs_depth) ==
  [fn |-> "quiescence_search", phase |-> "enter", alpha |-> alpha, beta |-> beta,
   qs_depth |-> qs_depth, moves |-> <<>>, idx |-> 1, undo |-> FreshUndo]

\* int negamax(Board& board, int depth, int alpha, int beta)
NegamaxFrame(depth, alpha, beta) ==
  [fn |-> "negamax", phase |-> "enter", depth |-> depth, alpha |-> alpha, beta |-> beta,
   original_alpha |-> alpha, pos_hash |-> {}, has_tt_move |-> FALSE, tt_move |-> ZeroMove,
   in_check |-> FALSE, saved |-> <<>>, legal_moves |-> <<>>, move_index |-> 1,
   best_score |-> NEG_INF, best_move |-> ZeroMove, undo |-> FreshUndo,
   is_capture |-> FALSE, is_promotion |-> FALSE, extension |-> 0,
   repetition_count |-> 0]

\* The locals of select_move at the head of its loop, the moves ordered.
SelectLoop(sorted, depth, init_alpha, init_beta) ==
  [fn |-> "select_move", phase |-> "loop", depth |-> depth, legal_moves |-> sorted,
   idx |-> 1, best_move |-> sorted[1], best_score |-> NEG_INF,
   alpha |-> init_alpha, beta |-> init_beta, undo |-> FreshUndo,
   repetition_count |-> 0]

\* SearchResult select_move(const Board& board, int depth, int init_alpha,
\* int init_beta), up to the loop: the moves are generated and ordered.
SelectFrame(s, root, depth, init_alpha, init_beta) ==
  SelectLoop(ordered_moves(s.killers, s.history, root, generate_legal_moves(root), 1, depth),
             depth, init_alpha, init_beta)

\* "move best_move;" of find_best_move without the fallback move.
fallback_move_none(moves) == ZeroMove

\* move best_move = legal_moves.front();
fallback_move(moves) == moves[1]

\* The locals of find_best_move at the head of its loop.
FindBestMoveFrame(root, max_depth, moves) ==
  [fn |-> "find_best_move", phase |-> "loop",
   max_depth |-> IF max_depth < 1 THEN 1 ELSE max_depth, depth |-> 1,
   best_move |-> fallback_move(moves), best_score |-> NEG_INF,
   eval_for_us |-> evaluate_for_current_player(root),
   asp_alpha |-> NEG_INF, asp_beta |-> POS_INF]

(* quiescence_search *)

\* The moves the loop of quiescence_search searches when the side to move
\* is not in check: the captures and the moves that give check.
qs_searched(position, moves) ==
  SelectSeq(moves, LAMBDA m :
    \/ is_capture_move(position, m)
    \/ LET after == make_move(position, m)
       IN attacks_is_in_check(after, after.side_to_move))

\* The loop of quiescence_search begins, if it has a move to search.
qs_loop(s, f, alpha, searched) ==
  IF searched = <<>> THEN Return(s, alpha)
  ELSE SetTop(s, [f EXCEPT !.phase = "loop", !.alpha = alpha, !.moves = searched])

\* quiescence_search from the test of qs_depth on, given the check status,
\* the static evaluation and the legal moves of the position.
qs_moves(s, f, in_check, stand_pat, moves) ==
  IF f.qs_depth <= 0 THEN Return(s, stand_pat)
  ELSE IF ~in_check /\ stand_pat >= f.beta THEN Return(s, f.beta)
  ELSE IF moves = <<>> THEN Return(s, evaluate_terminal(s.temp, 0))
  ELSE IF in_check THEN qs_loop(s, f, f.alpha, moves)
  ELSE qs_loop(s, f, Max2(f.alpha, stand_pat), qs_searched(s.temp, moves))

\* quiescence_search from its time check, which found time left, to its loop
qs_enter(s, f) ==
  qs_moves(s, f, attacks_is_in_check(s.temp, s.temp.side_to_move),
           evaluate_for_current_player(s.temp), generate_legal_moves(s.temp))

\* make_move(board, m, undo); quiescence_search(board, -beta, -alpha, qs_depth - 1)
qs_made(s, f, r) ==
  Push(SetTop([s EXCEPT !.temp = r.board], [f EXCEPT !.phase = "wait", !.undo = r.undo]),
       QsFrame(-f.beta, -f.alpha, f.qs_depth - 1))

qs_next(s, f) == qs_made(s, f, make_move_undo(s.temp, f.moves[f.idx], FreshUndo))

\* The rest of the loop body once the call returned v.
qs_scored(s, f, score) ==
  IF score >= f.beta THEN Return(s, f.beta)
  ELSE IF f.idx = Len(f.moves) THEN Return(s, Max2(f.alpha, score))
  ELSE SetTop(s, [f EXCEPT !.phase = "loop", !.alpha = Max2(f.alpha, score), !.idx = @ + 1])

qs_return(s, f, v) ==
  qs_scored([s EXCEPT !.temp = unmake_move(s.temp, f.moves[f.idx], f.undo)], f, -v)

(* negamax *)

\* negamax_finish without "if (!g_search_aborted)".
negamax_finish_unchecked(s, f) ==
  Return([s EXCEPT !.tt =
            g_tt_store(@, f.pos_hash, f.depth, f.best_score,
                       IF f.best_score <= f.original_alpha THEN TT_UPPER
                       ELSE IF f.best_score >= f.beta THEN TT_LOWER
                       ELSE TT_EXACT,
                       f.best_move)],
         f.best_score)

\* The store in the transposition table and the return of negamax.
negamax_finish(s, f) ==
  Return([s EXCEPT !.tt =
            IF ~s.aborted
            THEN g_tt_store(@, f.pos_hash, f.depth, f.best_score,
                            IF f.best_score <= f.original_alpha THEN TT_UPPER
                            ELSE IF f.best_score >= f.beta THEN TT_LOWER
                            ELSE TT_EXACT,
                            f.best_move)
            ELSE @],
         f.best_score)

\* The cutoff of negamax: a quiet move enters the killer and history tables.
negamax_cutoff(s, f, candidate) ==
  IF ~f.is_capture /\ ~f.is_promotion
  THEN [s EXCEPT !.killers = store_killer(@, f.depth, candidate),
                 !.history = update_history(@, s.temp.side_to_move, candidate, f.depth)]
  ELSE s

\* The end of the loop body of negamax: the move is unmade and has its score.
negamax_after_score(s, f, score) ==
  IF Max2(f.alpha, score) >= f.beta
  THEN negamax_finish(negamax_cutoff(s, f, f.legal_moves[f.move_index]),
                      [f EXCEPT !.best_score = Max2(@, score),
                                !.best_move = IF score > f.best_score
                                              THEN f.legal_moves[f.move_index] ELSE @])
  ELSE IF f.move_index = Len(f.legal_moves)
  THEN negamax_finish(s, [f EXCEPT !.best_score = Max2(@, score),
                                   !.best_move = IF score > f.best_score
                                                 THEN f.legal_moves[f.move_index] ELSE @])
  ELSE SetTop(s, [f EXCEPT !.best_score = Max2(@, score),
                           !.best_move = IF score > f.best_score
                                         THEN f.legal_moves[f.move_index] ELSE @,
                           !.alpha = Max2(@, score), !.phase = "loop",
                           !.move_index = @ + 1])

\* The search of the candidate returned score: the position leaves the
\* repetition store, the penalty applies and the move is unmade.
negamax_scored(s, f, score) ==
  negamax_after_score(
    [s EXCEPT !.positions = remove_last_position_from_history(@),
              !.temp = unmake_move(@, f.legal_moves[f.move_index], f.undo)],
    f,
    IF f.repetition_count = 1 /\ score > DRAW_SCORE - CONTEMPT
    THEN score - repetition_penalty(score)
    ELSE score)

\* The head of the loop of negamax, the moves ordered.
negamax_loop(s, f, sorted) ==
  SetTop(s, [f EXCEPT !.phase = "loop", !.legal_moves = sorted,
                      !.move_index = 1, !.best_move = sorted[1]])

\* negamax from the test of its legal moves on: without one the node is
\* terminal, else they are ordered for the loop.
negamax_ordered(s, f, legal) ==
  IF legal = <<>> THEN Return(s, evaluate_terminal(s.temp, f.depth))
  ELSE negamax_loop(s, f,
         ordered_moves(s.killers, s.history, s.temp,
                       IF f.has_tt_move THEN tt_move_first(legal, f.tt_move) ELSE legal,
                       IF f.has_tt_move THEN 2 ELSE 1, f.depth))

\* The legal moves are generated.
negamax_moves(s, f) == negamax_ordered(s, f, generate_legal_moves(s.temp))

\* The null move of negamax is tried at f.
null_move_tried(s, f) ==
  /\ ~f.in_check
  /\ f.depth >= NULL_MOVE_MIN_DEPTH + NULL_MOVE_REDUCTION
  /\ f.beta < POS_INF - 1000
  /\ f.beta > NEG_INF + 1000
  /\ has_non_pawn_material(s.temp, s.temp.side_to_move)
  /\ f.depth - 1 - NULL_MOVE_REDUCTION > 0

\* Board null_board = board; with the side switched and no en passant target
null_board(position) ==
  [position EXCEPT !.side_to_move = Opposite(@),
                   !.en_passant_row = -1, !.en_passant_col = -1]

\* negamax from the probe of the transposition table, which gave e, on.
negamax_probed(s, f, pos_hash, e, in_check) ==
  IF /\ e # NullEntry
     /\ e.depth >= f.depth
     /\ \/ e.flag = TT_EXACT
        \/ (IF e.flag = TT_LOWER THEN Max2(f.alpha, e.value) ELSE f.alpha)
             >= (IF e.flag = TT_UPPER THEN Min2(f.beta, e.value) ELSE f.beta)
  THEN [stop |-> TRUE, value |-> e.value]
  ELSE [stop |-> FALSE,
        frame |-> [f EXCEPT
          !.original_alpha = f.alpha,
          !.alpha = IF e # NullEntry /\ e.depth >= f.depth /\ e.flag = TT_LOWER
                    THEN Max2(f.alpha, e.value) ELSE f.alpha,
          !.beta = IF e # NullEntry /\ e.depth >= f.depth /\ e.flag = TT_UPPER
                   THEN Min2(f.beta, e.value) ELSE f.beta,
          !.pos_hash = pos_hash,
          !.in_check = in_check,
          !.has_tt_move = e # NullEntry /\ e.has_move,
          !.tt_move = IF e # NullEntry /\ e.has_move THEN e.best_move ELSE ZeroMove]]

\* negamax after the probe: the null move is searched, or the moves are
\* generated.
negamax_after_probe(s, p) ==
  IF p.stop THEN Return(s, p.value)
  ELSE IF null_move_tried(s, p.frame)
  THEN Push(SetTop([s EXCEPT !.temp = null_board(@)],
                   [p.frame EXCEPT !.phase = "wait_null", !.saved = s.temp]),
            NegamaxFrame(p.frame.depth - 1 - NULL_MOVE_REDUCTION,
                         -p.frame.beta, -p.frame.beta + 1))
  ELSE SetTop(s, [p.frame EXCEPT !.phase = "moves"])

\* negamax from its time check, which found time left, to the generation of
\* the moves, or to its return where it has one before.
negamax_enter(s, f) ==
  IF f.depth = 0
  THEN Push(SetTop(s, [f EXCEPT !.phase = "wait_qs"]), QsFrame(f.alpha, f.beta, MAX_QS_DEPTH))
  ELSE negamax_after_probe(s,
         negamax_probed(s, f, compute_zobrist(s.temp),
                        g_tt_probe(s.tt, compute_zobrist(s.temp)),
                        attacks_is_in_check(s.temp, s.temp.side_to_move)))

\* negamax_child with the extension of a checking move given to every move.
negamax_child_extends_all(f, g) ==
  [phase |-> "wait", frame |-> NegamaxFrame(f.depth - 1 + 1, -f.beta, -f.alpha)]

\* The recursive call of the loop body of negamax, reduced for a late quiet
\* move that gives no check.
negamax_child(f, g) ==
  IF /\ f.move_index - 1 >= 4 /\ f.depth >= 3
     /\ ~g.is_capture /\ ~g.is_promotion /\ ~f.in_check
     /\ g.extension = 0
  THEN [phase |-> "wait_lmr",
        frame |-> NegamaxFrame(f.depth - 1 - (1 + (IF f.depth > 6 THEN 1 ELSE 0)) + g.extension,
                               -f.alpha - 1, -f.alpha)]
  ELSE [phase |-> "wait",
        frame |-> NegamaxFrame(f.depth - 1 + g.extension, -f.beta, -f.alpha)]

\* The loop body of negamax once the candidate is made: r is the board and
\* the undo record, g the frame with what the body has computed.
negamax_made(s, f, candidate, r, g) ==
  IF g.repetition_count >= 2
  THEN negamax_after_score([s EXCEPT !.temp = unmake_move(r.board, candidate, r.undo)],
                           g, -(DRAW_SCORE - CONTEMPT))
  ELSE Push(SetTop([s EXCEPT !.temp = r.board,
                             !.positions = add_position_to_history(@, compute_zobrist(r.board))],
                   [g EXCEPT !.phase = negamax_child(f, g).phase]),
            negamax_child(f, g).frame)

\* What the loop body of negamax computes before the recursive call.
negamax_candidate(s, f, candidate, r) ==
  [f EXCEPT !.undo = r.undo,
            !.is_capture = is_capture_move(s.temp, candidate),
            !.is_promotion = candidate.promotion # "NONE",
            !.extension = IF attacks_is_in_check(r.board, r.board.side_to_move) THEN 1 ELSE 0,
            !.repetition_count = count_repetitions(s.positions, compute_zobrist(r.board))]

negamax_try(s, f, candidate, r) ==
  negamax_made(s, f, candidate, r, negamax_candidate(s, f, candidate, r))

\* The loop body of negamax up to the recursive call.
negamax_next(s, f) ==
  negamax_try(s, f, f.legal_moves[f.move_index],
              make_move_undo(s.temp, f.legal_moves[f.move_index], FreshUndo))

\* A call made by negamax returned v.
negamax_return(s, f, v) ==
  CASE f.phase = "wait_qs" -> Return(s, v)
    [] f.phase = "wait_null" ->
         IF -v >= f.beta /\ ~s.aborted THEN Return([s EXCEPT !.temp = f.saved], f.beta)
         ELSE SetTop([s EXCEPT !.temp = f.saved], [f EXCEPT !.phase = "moves", !.saved = <<>>])
    [] f.phase = "wait_lmr" ->
         IF -v > f.alpha
         THEN Push(SetTop(s, [f EXCEPT !.phase = "wait"]),
                   NegamaxFrame(f.depth - 1 + f.extension, -f.beta, -f.alpha))
         ELSE negamax_scored(s, f, -v)
    [] f.phase = "wait" -> negamax_scored(s, f, -v)

(* select_move *)

\* The end of the loop body of select_move.
select_after_score(s, f, score) ==
  IF f.idx = Len(f.legal_moves)
  THEN Return(s, [best_move |-> IF score > f.best_score THEN f.legal_moves[f.idx]
                                ELSE f.best_move,
                  score |-> Max2(f.best_score, score)])
  ELSE SetTop(s, [f EXCEPT !.best_score = Max2(@, score),
                           !.best_move = IF score > f.best_score THEN f.legal_moves[f.idx] ELSE @,
                           !.alpha = Max2(@, score),
                           !.phase = "loop", !.idx = @ + 1])

\* The loop body of select_move once the candidate is made on the copy of
\* the board: r is the copy and the undo record.
select_made(s, f, candidate, r, repetition_count) ==
  IF repetition_count >= 2
  THEN select_after_score([s EXCEPT !.temp = unmake_move(r.board, candidate, r.undo)],
                          [f EXCEPT !.undo = r.undo, !.repetition_count = repetition_count],
                          -(DRAW_SCORE - CONTEMPT))
  ELSE Push(SetTop([s EXCEPT !.temp = r.board,
                             !.positions = add_position_to_history(@, compute_zobrist(r.board))],
                   [f EXCEPT !.undo = r.undo, !.repetition_count = repetition_count,
                             !.phase = "wait"]),
            NegamaxFrame(f.depth - 1, -f.beta, -f.alpha))

select_try(s, f, candidate, r) ==
  select_made(s, f, candidate, r, count_repetitions(s.positions, compute_zobrist(r.board)))

\* The loop body of select_move from its time check, which found time
\* left, to the call of negamax.
select_next(s, f, root) ==
  select_try(s, f, f.legal_moves[f.idx], make_move_undo(root, f.legal_moves[f.idx], FreshUndo))

\* negamax returned v to select_move.
select_return(s, f, v) ==
  select_after_score(
    [s EXCEPT !.positions = remove_last_position_from_history(@),
              !.temp = unmake_move(@, f.legal_moves[f.idx], f.undo)],
    f,
    IF f.repetition_count = 1 /\ -v > DRAW_SCORE - CONTEMPT
    THEN -v - root_repetition_penalty(-v)
    ELSE -v)

(* find_best_move *)

\* bool use_aspiration
use_aspiration(f) ==
  /\ f.depth >= 5
  /\ f.best_score > NEG_INF + 5000
  /\ f.best_score < POS_INF - 5000
  /\ Abs(f.best_score) < MATE_THRESHOLD

\* The call of select_move of one iteration, with the window asp_alpha to
\* asp_beta if the aspiration window is used.
iteration_window(s, f, root, asp_alpha, asp_beta) ==
  Push(SetTop(s, [f EXCEPT !.phase = IF use_aspiration(f) THEN "aspiration" ELSE "select",
                           !.asp_alpha = asp_alpha, !.asp_beta = asp_beta]),
       SelectFrame(s, root, f.depth, asp_alpha, asp_beta))

iteration_start(s, f, root) ==
  iteration_window(s, f, root,
    IF use_aspiration(f) THEN Max2(f.best_score - ASPIRATION_DELTA, NEG_INF) ELSE NEG_INF,
    IF use_aspiration(f) THEN Min2(f.best_score + ASPIRATION_DELTA, POS_INF) ELSE POS_INF)

\* find_best_move taking the result of select_move without the test of
\* g_search_aborted.
iteration_result_unchecked(s, f, result) ==
  [f EXCEPT !.best_move = result.best_move, !.best_score = result.score]

\* "if (!g_search_aborted) { best_move = result.best_move; best_score =
\* result.score; ... }"
iteration_result(s, f, result) ==
  IF s.aborted THEN f
  ELSE [f EXCEPT !.best_move = result.best_move, !.best_score = result.score]

\* iteration_continues with "std::abs(best_score) >= MATE_THRESHOLD" for the
\* break on a mate score.
iteration_continues_abs(s, f, result) ==
  /\ ~s.aborted
  /\ Abs(result.score) < MATE_THRESHOLD
  /\ ~(f.depth >= 4 /\ f.eval_for_us >= CLEARLY_WINNING /\ result.score >= CLEARLY_WINNING)

\* The iteration goes on: the loop of find_best_move neither breaks nor
\* searches again.
iteration_continues(s, f, result) ==
  /\ ~s.aborted
  /\ result.score < MATE_THRESHOLD
  /\ ~(f.depth >= 4 /\ f.eval_for_us >= CLEARLY_WINNING /\ result.score >= CLEARLY_WINNING)

\* The search with the aspiration window failed outside the window.
aspiration_failed(s, f, result) ==
  /\ f.phase = "aspiration"
  /\ ~s.aborted
  /\ (result.score <= f.asp_alpha \/ result.score >= f.asp_beta)

(***************************************************************************)
(* SpecMain: main replays the history file, generates the legal moves,     *)
(* exits if there is none, else calls find_best_move, validates the move   *)
(* it returned and writes it to the output file.  find_best_move is also   *)
(* called with other depths and without a time limit, as its two-argument  *)
(* overload does.                                                          *)
(***************************************************************************)
MainHistories ==
  { <<>>, HistMateInOne, HistFoolsMate, HistStalemate, HistLongerMateFirst,
    HistIllegalLine, HistShortLine, HistForcedMate, HistCheckedKing, HistRepeated,
    HistEmptySquareLine }

\* The arguments max_depth and time_limit_ms of find_best_move.
Calls ==
  { [max_depth |-> d, time_limit_ms |-> 0] : d \in 1..MaxDepth }
    \cup { MainCall }

InitMain ==
  /\ \E h \in UninitHashes : board = make_starting_position(h)
  /\ legal_moves = <<>>
  /\ pc = "parse"
  /\ lines \in MainHistories
  /\ undo_stack = <<>>
  /\ move_scores = <<>>
  /\ last = NoOp
  /\ TablesIdle
  /\ SearchIdle

\* bool time_is_up(): the values the call may return.  The clock is steady,
\* so once the limit has passed it has passed for every later call.
time_is_up ==
  IF call.time_limit_ms <= 0 THEN {FALSE}
  ELSE IF time_up THEN {TRUE}
  ELSE {FALSE, TRUE}

Assign(s) ==
  /\ stack' = s.stack
  /\ ret' = s.ret
  /\ temp' = s.temp
  /\ g_search_aborted' = s.aborted
  /\ g_tt' = s.tt
  /\ g_killers' = s.killers
  /\ g_history' = s.history
  /\ g_position_history' = s.positions

Running(fn, phases) ==
  /\ pc = "search"
  /\ stack # <<>>
  /\ Top(SearchState).fn = fn
  /\ Top(SearchState).phase \in phases

\* What the steps of the search leave alone.
searchFixed == << playVars, ttVars, perftVars, call, search_called, exit_code, output_file >>

\* The step stays inside find_best_move.
Step(s) == Assign(s) /\ UNCHANGED << pc, best_move, search_score >>

\* "if (moves.empty())" of main, never taken.
moves_empty_never(moves) == FALSE

\* "if (moves.empty())" of main
moves_empty(moves) == moves = <<>>

\* main: moves.empty(), return 0
NoLegalMoves ==
  /\ pc = "play"
  /\ moves_empty(legal_moves)
  /\ pc' = "exited"
  /\ exit_code' = << 0 >>
  /\ UNCHANGED << playVars, ttVars, perftVars, g_position_history, stack, ret, temp,
                  time_up, g_search_aborted, g_tt, g_killers, g_history, call, best_move,
                  search_score, search_called, output_file >>

\* find_best_move from its generation of the legal moves on: without one it
\* returns move(0, 0, 0, 0), else it enters its loop.
FindBestMoveCalled(c, moves) ==
  IF moves = <<>>
  THEN pc' = "safety" /\ stack' = <<>> /\ best_move' = ZeroMove
  ELSE /\ pc' = "search"
       /\ stack' = << FindBestMoveFrame(board, c.max_depth, moves) >>
       /\ UNCHANGED best_move

\* main calls find_best_move, which sets the time limit, clears the killer
\* and history tables and takes the first legal move as its answer so far.
CallFindBestMove ==
  /\ pc = "play"
  /\ ~moves_empty(legal_moves)
  /\ \E c \in Calls :
       /\ call' = c
       /\ FindBestMoveCalled(c, generate_legal_moves(board))
  /\ search_called' = TRUE
  /\ time_up' = FALSE
  /\ g_search_aborted' = FALSE
  /\ g_killers' = << >>
  /\ g_history' = << >>
  /\ UNCHANGED << playVars, ttVars, perftVars, g_position_history, ret, temp, g_tt,
                  search_score, exit_code, output_file >>

\* find_best_move returns to main.
ReturnToMain(f) ==
  /\ pc' = "safety"
  /\ stack' = <<>>
  /\ ret' = NoRet
  /\ best_move' = f.best_move
  /\ search_score' = f.best_score
  /\ UNCHANGED << temp, g_search_aborted, g_tt, g_killers, g_history, g_position_history >>

\* The number of pieces on the board.
PieceCount(b) ==
  Cardinality({ sq \in (0..7) \X (0..7) : b.squares[sq[1]][sq[2]].type # "None" })

\* The depth of the last iteration the clock lets find_best_move begin.
IterationCap(root) ==
  IF PieceCount(root) <= MaxBarePieces THEN MaxBareDepth ELSE MaxDepth

\* The head of the loop of find_best_move: the loop ends past max_depth or
\* when time is up, else the iteration calls select_move.
IterationStart ==
  /\ Running("find_best_move", {"loop"})
  /\ LET f == Top(SearchState)
     IN IF f.depth > f.max_depth
        THEN ReturnToMain(f) /\ UNCHANGED time_up
        ELSE \E up \in time_is_up :
               /\ f.depth > IterationCap(board) => up
               /\ time_up' = up
               /\ IF up THEN ReturnToMain(f)
                  ELSE Step(iteration_start(SearchState, f, board))
  /\ UNCHANGED searchFixed

\* select_move returned to find_best_move: the search is repeated with the
\* full window, or the result is kept unless the search was aborted, and
\* the loop goes on or breaks.
IterationDone ==
  /\ Running("find_best_move", {"select", "aspiration"})
  /\ ret # NoRet
  /\ LET s == Taken(SearchState)
         f == Top(s)
         result == ret.value
         kept == iteration_result(s, f, result)
     IN IF aspiration_failed(s, f, result)
        THEN Step(Push(SetTop(s, [f EXCEPT !.phase = "select"]),
                       SelectFrame(s, board, f.depth, NEG_INF, POS_INF)))
        ELSE IF iteration_continues(s, f, result)
        THEN Step(SetTop(s, [kept EXCEPT !.phase = "loop", !.depth = @ + 1]))
        ELSE ReturnToMain(kept)
  /\ UNCHANGED << searchFixed, time_up >>

\* One pass of the loop of select_move up to the call of negamax, or the
\* break when time is up.
SelectNext ==
  /\ Running("select_move", {"loop"})
  /\ LET s == SearchState
         f == Top(s)
     IN \E up \in time_is_up :
          /\ time_up' = up
          /\ IF up
             THEN Step(Return([s EXCEPT !.aborted = TRUE],
                              [best_move |-> f.best_move, score |-> f.best_score]))
             ELSE Step(select_next(s, f, board))
  /\ UNCHANGED searchFixed

\* negamax returned to select_move.
SelectReturn ==
  /\ Running("select_move", {"wait"})
  /\ ret # NoRet
  /\ Step(select_return(Taken(SearchState), Top(SearchState), ret.value))
  /\ UNCHANGED << searchFixed, time_up >>

\* negamax from its entry to the generation of its moves, or to its return
\* where it has one before.
NegamaxEnter ==
  /\ Running("negamax", {"enter"})
  /\ LET s == SearchState
     IN \E up \in time_is_up :
          /\ time_up' = up
          /\ IF up THEN Step(Return([s EXCEPT !.aborted = TRUE], 0))
             ELSE Step(negamax_enter(s, Top(s)))
  /\ UNCHANGED searchFixed

\* negamax generates and orders its moves, or returns at a terminal node.
NegamaxMoves ==
  /\ Running("negamax", {"moves"})
  /\ Step(negamax_moves(SearchState, Top(SearchState)))
  /\ UNCHANGED << searchFixed, time_up >>

\* One pass of the loop of negamax up to the recursive call.
NegamaxNext ==
  /\ Running("negamax", {"loop"})
  /\ Step(negamax_next(SearchState, Top(SearchState)))
  /\ UNCHANGED << searchFixed, time_up >>

\* A call made by negamax returned.
NegamaxReturn ==
  /\ Running("negamax", {"wait_qs", "wait_null", "wait_lmr", "wait"})
  /\ ret # NoRet
  /\ Step(negamax_return(Taken(SearchState), Top(SearchState), ret.value))
  /\ UNCHANGED << searchFixed, time_up >>

\* quiescence_search from its entry to its loop, or to its return where it
\* has one before the loop.
QsEnter ==
  /\ Running("quiescence_search", {"enter"})
  /\ LET s == SearchState
     IN \E up \in time_is_up :
          /\ time_up' = up
          /\ IF up
             THEN Step(Return([s EXCEPT !.aborted = TRUE], evaluate_for_current_player(s.temp)))
             ELSE Step(qs_enter(s, Top(s)))
  /\ UNCHANGED searchFixed

\* One pass of the loop of quiescence_search up to the recursive call.
QsNext ==
  /\ Running("quiescence_search", {"loop"})
  /\ Step(qs_next(SearchState, Top(SearchState)))
  /\ UNCHANGED << searchFixed, time_up >>

\* The recursive call of quiescence_search returned.
QsReturn ==
  /\ Running("quiescence_search", {"wait"})
  /\ ret # NoRet
  /\ Step(qs_return(Taken(SearchState), Top(SearchState), ret.value))
  /\ UNCHANGED << searchFixed, time_up >>

\* main validates the move find_best_move returned, falls back on the first
\* legal move, and write_move_to_file writes the move if the file opens.
WriteMove ==
  /\ pc = "safety"
  /\ IF ~is_valid(legal_moves, best_move) /\ legal_moves = <<>>
     THEN exit_code' = << 1 >> /\ UNCHANGED << best_move, output_file >>
     ELSE LET chosen == IF is_valid(legal_moves, best_move) THEN best_move
                        ELSE legal_moves[1]
          IN /\ best_move' = chosen
             /\ \E is_open \in BOOLEAN :
                  IF is_open
                  THEN output_file' = [is_open |-> TRUE, text |-> << move_to_uci(chosen) >>] /\ exit_code' = << 0 >>
                  ELSE exit_code' = << 1 >> /\ UNCHANGED output_file
  /\ pc' = "exited"
  /\ UNCHANGED << playVars, ttVars, perftVars, g_position_history, stack, ret, temp,
                  time_up, g_search_aborted, g_tt, g_killers, g_history, call,
                  search_score, search_called >>

NextMain ==
  \/ ParseLine \/ ParseDone \/ Generate \/ NoLegalMoves \/ CallFindBestMove
  \/ IterationStart \/ IterationDone \/ SelectNext \/ SelectReturn
  \/ NegamaxEnter \/ NegamaxMoves \/ NegamaxNext \/ NegamaxReturn
  \/ QsEnter \/ QsNext \/ QsReturn \/ WriteMove

SpecMain == InitMain /\ [][NextMain]_vars

(***************************************************************************)
(* SpecAspiration: main on a board of two kings and a pawn, where the      *)
(* iterations of find_best_move reach the depth of the aspiration window,  *)
(* on a board where the side to move is checkmated, and on one where the   *)
(* quiescence search has captures to try.                                  *)
(***************************************************************************)
InitAspiration ==
  /\ \E h \in UninitHashes : board = make_starting_position(h)
  /\ legal_moves = <<>>
  /\ pc = "parse"
  /\ lines \in { HistKingsAndPawn, HistFoolsMate, HistIllegalLine }
  /\ undo_stack = <<>>
  /\ move_scores = <<>>
  /\ last = NoOp
  /\ TablesIdle
  /\ SearchIdle

SpecAspiration == InitAspiration /\ [][NextMain]_vars

(***************************************************************************)
(* The rules of chess, stated on the squares alone.  The properties below  *)
(* compare the program with them.                                          *)
(***************************************************************************)
Sgn(x) == IF x > 0 THEN 1 ELSE IF x < 0 THEN -1 ELSE 0

\* Every square strictly between two squares of a line is empty.
RulePathClear(squares, fr, fc, tr, tc) ==
  \A k \in 1..(Max2(Abs(tr - fr), Abs(tc - fc)) - 1) :
     squares[fr + k * Sgn(tr - fr)][fc + k * Sgn(tc - fc)].type = "None"

\* The piece on (fr, fc) attacks the square (tr, tc).
RuleAttacks(squares, fr, fc, tr, tc) ==
  LET p == squares[fr][fc]
      dr == tr - fr
      dc == tc - fc
      diagonal == Abs(dr) = Abs(dc) /\ dr # 0
      straight == (dr = 0) # (dc = 0)
  IN CASE p.type = "Pawn" -> Abs(dc) = 1 /\ dr = (IF p.color = "White" THEN 1 ELSE -1)
       [] p.type = "Knight" -> {Abs(dr), Abs(dc)} = {1, 2}
       [] p.type = "King" -> Max2(Abs(dr), Abs(dc)) = 1
       [] p.type = "Bishop" -> diagonal /\ RulePathClear(squares, fr, fc, tr, tc)
       [] p.type = "Rook" -> straight /\ RulePathClear(squares, fr, fc, tr, tc)
       [] p.type = "Queen" -> (diagonal \/ straight) /\ RulePathClear(squares, fr, fc, tr, tc)
       [] OTHER -> FALSE

RuleAttacked(squares, tr, tc, by_color) ==
  \E fr \in 0..7, fc \in 0..7 :
     squares[fr][fc].color = by_color /\ RuleAttacks(squares, fr, fc, tr, tc)

\* The king of `color` stands on a square the other side attacks.
RuleInCheck(squares, color) ==
  \E r \in 0..7, c \in 0..7 :
     /\ squares[r][c] = Piece("King", color)
     /\ RuleAttacked(squares, r, c, Opposite(color))

RuleIsEnPassant(b, m) ==
  /\ b.squares[m.from_row][m.from_col].type = "Pawn"
  /\ m.from_col # m.to_col
  /\ b.squares[m.to_row][m.to_col].type = "None"

RuleIsCastling(b, m) ==
  b.squares[m.from_row][m.from_col].type = "King" /\ Abs(m.to_col - m.from_col) = 2

\* The squares after the move m is played on b.
RuleSquaresAfter(b, m) ==
  LET p == b.squares[m.from_row][m.from_col]
      placed == IF m.promotion = "NONE" THEN p ELSE Piece(PromotedType(m.promotion), p.color)
  IN [r \in 0..7 |-> [c \in 0..7 |->
       IF r = m.to_row /\ c = m.to_col THEN placed
       ELSE IF r = m.from_row /\ c = m.from_col THEN NoPiece
       ELSE IF RuleIsEnPassant(b, m) /\ r = m.from_row /\ c = m.to_col THEN NoPiece
       ELSE IF RuleIsCastling(b, m) /\ r = m.from_row /\ c = (IF m.to_col = 6 THEN 7 ELSE 0)
       THEN NoPiece
       ELSE IF RuleIsCastling(b, m) /\ r = m.from_row /\ c = (IF m.to_col = 6 THEN 5 ELSE 3)
       THEN Piece("Rook", p.color)
       ELSE b.squares[r][c]]]

RuleCastlingRight(b, color, kingside) ==
  CASE color = "White" /\ kingside -> b.white_can_castle_kingside
    [] color = "White" /\ ~kingside -> b.white_can_castle_queenside
    [] color = "Black" /\ kingside -> b.black_can_castle_kingside
    [] OTHER -> b.black_can_castle_queenside

\* m is a move of the side to move by the rules, the king's safety after it
\* left aside.
RulePseudoLegal(b, m) ==
  LET sq == b.squares
      p == sq[m.from_row][m.from_col]
      t == sq[m.to_row][m.to_col]
      us == b.side_to_move
      dir == IF us = "White" THEN 1 ELSE -1
      start_row == IF us = "White" THEN 1 ELSE 6
      last_row == IF us = "White" THEN 7 ELSE 0
      back_row == IF us = "White" THEN 0 ELSE 7
      dr == m.to_row - m.from_row
      dc == m.to_col - m.from_col
      kingside == dc = 2
      rook_col == IF kingside THEN 7 ELSE 0
      pawn_shape ==
        \/ dc = 0 /\ dr = dir /\ t.type = "None"
        \/ /\ dc = 0 /\ dr = 2 * dir /\ m.from_row = start_row
           /\ sq[m.from_row + dir][m.from_col].type = "None" /\ t.type = "None"
        \/ Abs(dc) = 1 /\ dr = dir /\ t.type # "None" /\ t.color = Opposite(us)
        \/ /\ Abs(dc) = 1 /\ dr = dir /\ t.type = "None"
           /\ b.en_passant_row = m.to_row /\ b.en_passant_col = m.to_col
           /\ sq[m.from_row][m.to_col] = Piece("Pawn", Opposite(us))
      castling ==
        /\ m.from_row = back_row /\ m.from_col = 4 /\ dr = 0 /\ Abs(dc) = 2
        /\ RuleCastlingRight(b, us, kingside)
        /\ sq[back_row][rook_col] = Piece("Rook", us)
        /\ RulePathClear(sq, back_row, 4, back_row, rook_col)
        /\ \A c \in {4, 4 + Sgn(dc), 4 + 2 * Sgn(dc)} :
              ~RuleAttacked(sq, back_row, c, Opposite(us))
  IN /\ p.type # "None" /\ p.color = us
     /\ t.color # us
     /\ IF p.type = "Pawn"
        THEN pawn_shape /\ ((m.promotion # "NONE") <=> (m.to_row = last_row))
        ELSE /\ m.promotion = "NONE"
             /\ \/ RuleAttacks(sq, m.from_row, m.from_col, m.to_row, m.to_col)
                \/ p.type = "King" /\ castling

RuleLegal(b, m) ==
  RulePseudoLegal(b, m) /\ ~RuleInCheck(RuleSquaresAfter(b, m), b.side_to_move)

AllMoves ==
  { move(fr, fc, tr, tc, pr) :
      fr \in 0..7, fc \in 0..7, tr \in 0..7, tc \in 0..7,
      pr \in {"NONE", "QUEEN", "ROOK", "BISHOP", "KNIGHT"} }

\* The moves that start on a piece of the side to move.
OwnMoves(b) ==
  { m \in AllMoves : b.squares[m.from_row][m.from_col].color = b.side_to_move }

MovesOf(list) == { list[i] : i \in 1..Len(list) }

(***************************************************************************)
(* Properties of make_move and unmake_move                                 *)
(***************************************************************************)
\* C1: after make_move(board, m, undo) for a move m of generate_legal_moves
\* and unmake_move(board, m, undo), the board is the board before make_move:
\* the 64 squares, the side to move, the four castling rights, the en
\* passant row and column and the zobrist hash.
MakeUnmakeRestoresBoard == last.op = "unmake" => board = last.before

UnmadePromotingCapture ==
  /\ last.op = "unmake"
  /\ last.m.promotion = "KNIGHT"
  /\ last.before.squares[last.m.to_row][last.m.to_col].type = "Rook"
  /\ board.squares[last.m.from_row][last.m.from_col].type = "Pawn"

\* C2: whenever the program holds a board built by make_starting_position
\* and changed by make_move and unmake_move only, board.zobrist_hash equals
\* compute_zobrist(board).
IncrementalHashIsComputeZobrist == board.zobrist_hash = compute_zobrist(board)

(***************************************************************************)
(* Properties of generate_legal_moves                                      *)
(***************************************************************************)
\* C3: after make_move of a move of generate_legal_moves the king of the
\* side that moved is on no square the opponent attacks, and is_in_check of
\* the mover is false.
LegalMoveLeavesKingSafe ==
  last.op = "make" =>
    /\ ~RuleInCheck(board.squares, last.before.side_to_move)
    /\ ~is_in_check(board, last.before.side_to_move)
    /\ ~attacks_is_in_check(board, last.before.side_to_move)

\* A legal move was made from a position in which the mover was in check.
MadeMoveOutOfCheck ==
  /\ last.op = "make"
  /\ RuleInCheck(last.before.squares, last.before.side_to_move)
  /\ ~RuleInCheck(board.squares, last.before.side_to_move)

\* C4: every move of the side to move that the rules allow (pawn pushes,
\* double pushes, captures, en passant, the four promotions, knight, slider
\* and king moves, castling) and that leaves the mover's king unattacked is
\* in the list generate_legal_moves returned.
GeneratorIsComplete ==
  pc = "play" => \A m \in OwnMoves(board) : RuleLegal(board, m) => m \in MovesOf(legal_moves)

\* The list holds an en passant capture the rules allow.
GeneratedEnPassant ==
  /\ pc = "play"
  /\ \E m \in MovesOf(legal_moves) : RuleIsEnPassant(board, m) /\ RuleLegal(board, m)

(***************************************************************************)
(* Properties of calculate_move_score                                      *)
(***************************************************************************)
\* The indices of the scored list that hold captures, and what they take
\* and with what.
ScoredCaptures == { i \in 1..Len(move_scores) : is_capture_move(board, legal_moves[i]) }

VictimValue(i) ==
  LET m == legal_moves[i]
  IN IF board.squares[m.to_row][m.to_col].type = "None" THEN MATERIAL_VALUES("Pawn")
     ELSE MATERIAL_VALUES(board.squares[m.to_row][m.to_col].type)

AttackerValue(i) ==
  MATERIAL_VALUES(board.squares[legal_moves[i].from_row][legal_moves[i].from_col].type)

\* a is to be tried before b by most valuable victim, then least valuable
\* attacker.
MvvLvaBefore(a, b) ==
  \/ VictimValue(a) > VictimValue(b)
  \/ VictimValue(a) = VictimValue(b) /\ AttackerValue(a) < AttackerValue(b)

\* C10 as stated: of two captures of one position (normal, en passant or
\* promoting), the one with the more valuable victim, or with the same
\* victim and the less valuable attacker, has the strictly higher score.
MvvLvaMonotone ==
  \A a \in ScoredCaptures, b \in ScoredCaptures :
     MvvLvaBefore(a, b) => move_scores[a] > move_scores[b]

\* a takes a bishop and b a knight, with an attacker worth at least ten times
\* the difference between bishop and knight more than b's.
BishopOverKnightByDearerAttacker(a, b) ==
  /\ VictimValue(a) = MATERIAL_VALUES("Bishop")
  /\ VictimValue(b) = MATERIAL_VALUES("Knight")
  /\ AttackerValue(a) - AttackerValue(b)
       >= 10 * (MATERIAL_VALUES("Bishop") - MATERIAL_VALUES("Knight"))

\* C10 as amended: of two captures that do not promote, the one with the
\* more valuable victim, or with the same victim and the less valuable
\* attacker, has the strictly higher score, unless it takes a bishop where
\* the other takes a knight with an attacker worth 100 or more less.
MvvLvaMonotoneWithoutPromotion ==
  \A a \in ScoredCaptures, b \in ScoredCaptures :
     /\ legal_moves[a].promotion = "NONE"
     /\ legal_moves[b].promotion = "NONE"
     /\ MvvLvaBefore(a, b)
     /\ ~BishopOverKnightByDearerAttacker(a, b)
     => move_scores[a] > move_scores[b]

\* The scored list holds two captures without promotion, of a queen and of
\* a pawn, and the capture of the queen has the higher score.
ScoredTwoCaptures ==
  \E a \in ScoredCaptures, b \in ScoredCaptures :
     /\ legal_moves[a].promotion = "NONE"
     /\ legal_moves[b].promotion = "NONE"
     /\ VictimValue(a) = MATERIAL_VALUES("Queen")
     /\ VictimValue(b) = MATERIAL_VALUES("Pawn")
     /\ move_scores[a] > move_scores[b]

(***************************************************************************)
(* Properties of the transposition table                                   *)
(***************************************************************************)
\* The store that wrote last the entry a probe of key looks at.
StoredFor(key) == tt_stored[slot_of(tt, key)]

\* C9: when the last store that replaced the entry of a key was a store of
\* that key, probe(key) returns an entry with the key, depth, value and flag
\* of that store, with has_move true and best_move the stored move if best
\* was given, and has_move false if best was null.
StoreProbeRoundTrip ==
  (tt_probed.op = "probe" /\ StoredFor(tt_probed.key).op = "store"
                          /\ StoredFor(tt_probed.key).key = tt_probed.key)
  => LET e == tt_probed.entry
         st == StoredFor(tt_probed.key)
     IN /\ e # NullEntry
        /\ e.key = st.key /\ e.depth = st.depth /\ e.value = st.value /\ e.flag = st.flag
        /\ st.best # NullMove => e.has_move /\ e.best_move = st.best
        /\ st.best = NullMove => ~e.has_move

\* A probe found an entry stored without a move over an entry that had one.
ProbedEntryStoredWithoutMove ==
  /\ tt_probed.op = "probe"
  /\ StoredFor(tt_probed.key).op = "store"
  /\ StoredFor(tt_probed.key).key = tt_probed.key
  /\ StoredFor(tt_probed.key).best = NullMove
  /\ tt_probed.entry # NullEntry
  /\ ~tt_probed.entry.has_move
  /\ tt_probed.entry.best_move # DefaultEntry.best_move

(***************************************************************************)
(* Properties of the game tree                                             *)
(***************************************************************************)
\* C5: the game tree of the starting position has 20 nodes at depth 1, and
\* once it is walked, 400 at depth 2, 8902 at depth 3 and 197281 at depth 4.
PerftCounts ==
  /\ pc = "walk" => perft_count[1] = 20
  /\ pc = "counted" => perft_count = << 20, 400, 8902, 197281 >>

\* The walk is over and it counted nodes at depth 4.
PerftCounted == pc = "counted" /\ perft_count[4] > 0

\* C8: when the position reached by the history file has no legal move,
\* checkmate or stalemate, main never calls find_best_move, never opens the
\* output file, and the value it returns is 0.
NoMoveExitsQuietly ==
  (pc \in {"play", "search", "safety", "exited"} /\ legal_moves = <<>>)
    => /\ ~search_called
       /\ stack = <<>>
       /\ output_file = NotOpened
       /\ pc \in {"play", "exited"}
       /\ pc = "exited" => exit_code = << 0 >>

\* main has returned in a stalemate.
ExitedInStalemate ==
  /\ pc = "exited"
  /\ legal_moves = <<>>
  /\ ~attacks_is_in_check(board, board.side_to_move)

\* C6: the move find_best_move returns is one of generate_legal_moves of the
\* position it was called on, whatever max_depth and the time limit and
\* wherever the clock aborts the search, and the line main writes to the
\* output file is move_to_uci of a move of that list.
ReturnedMoveIsLegal ==
  /\ pc = "safety" => is_valid(generate_legal_moves(board), best_move)
  /\ (pc = "exited" /\ output_file.is_open)
       => /\ is_valid(legal_moves, best_move)
          /\ output_file.text = << move_to_uci(best_move) >>

\* The clock aborted an iteration after an earlier one was completed, and
\* main wrote the move of the completed one.
WroteMoveAfterAbort ==
  /\ pc = "exited"
  /\ output_file.is_open
  /\ g_search_aborted
  /\ search_score > NEG_INF

\* The move mates: after it the side to move is in check without a legal move.
Mates(position, m) ==
  /\ attacks_is_in_check(make_move(position, m), Opposite(position.side_to_move))
  /\ generate_legal_moves(make_move(position, m)) = <<>>

\* C7: when the side to move has a move that mates at once, find_best_move
\* with max_depth >= 2, not stopped by the clock, returns a move that mates
\* and the score of its last iteration is at least MATE_THRESHOLD.
MateInOneIsPlayed ==
  (/\ pc = "safety"
   /\ call.max_depth >= 2
   /\ ~time_up
   /\ ~g_search_aborted
   /\ \E i \in 1..Len(legal_moves) : Mates(board, legal_moves[i]))
    => /\ Mates(board, best_move)
       /\ search_score >= MATE_THRESHOLD

\* The lines of the history file parse_history has replayed.
HistoryRead == IF last.op = "replay" THEN last.read ELSE <<>>

\* C11: when the history has at most 24 half-moves and its key is in the
\* opening book, main writes the reply of the book and never calls
\* find_best_move: e2e4 for the empty history, e7e5 after e2e4, g1f3 after
\* e2e4 e7e5.
BookReplyIsPlayed ==
  (/\ pc = "exited"
   /\ Len(HistoryRead) <= 24
   /\ BookHits(HistoryRead) # {})
    => /\ ~search_called
       /\ output_file.is_open
            => output_file.text = << move_to_uci(get_book_move(HistoryRead)) >>

\* The parts of a Board other than its hash.
Position(b) ==
  << b.squares, b.side_to_move, b.white_can_castle_kingside,
     b.white_can_castle_queenside, b.black_can_castle_kingside,
     b.black_can_castle_queenside, b.en_passant_row, b.en_passant_col >>

\* C12: parse_history skips a line shorter than four characters and a line
\* whose move is not a legal move of the position replayed so far: squares,
\* side to move, castling rights, en passant target and repetition store
\* are after the line what they were before it, and the next line is read.
BadLineIsSkipped ==
  [][(/\ pc = "parse"
      /\ lines # <<>>
      /\ \/ Len(Head(lines)) < 4
         \/ ~is_valid(generate_legal_moves(board), parse_move(Head(lines))))
       => /\ Position(board') = Position(board)
          /\ g_position_history' = g_position_history
          /\ lines' = Tail(lines)]_vars

\* The text uci written for m is read back by parse_move as m, and its
\* promotion letter, if it has one, is q, r, b or n.
ReadBack(uci, m) ==
  /\ parse_move(uci) = m
  /\ Len(uci) = 5 => uci[5] \in {"q", "r", "b", "n"}

\* C13: move_to_uci and parse_move are a round trip that writes the
\* promotions as q, r, b and n: every move is read back from its text as
\* itself, a knight promotion included.  It is stated of the moves
\* generate_legal_moves returns and holds if it does of either definition
\* of move_to_uci, that of move.h or that of 5_generate_output.cpp.
UciRoundTrip ==
  \/ \A i \in 1..Len(legal_moves) : ReadBack(move_to_uci(legal_moves[i]), legal_moves[i])
  \/ \A i \in 1..Len(legal_moves) :
       ReadBack(generate_output_move_to_uci(legal_moves[i]), legal_moves[i])

\* The number of kings of the colour on the board.
KingCount(b, color) ==
  Cardinality({ sq \in 0..63 : b.squares[sq \div 8][sq % 8] = Piece("King", color) })

\* C14: every board reached from the starting position by make_move of moves
\* of generate_legal_moves, and by the matching unmake_move, holds exactly one
\* white king and exactly one black king, and no move generate_legal_moves
\* returns for it lands on a king.
OneKingEach ==
  /\ KingCount(board, "White") = 1
  /\ KingCount(board, "Black") = 1
  /\ pc = "play" =>
       \A i \in 1..Len(legal_moves) :
         board.squares[legal_moves[i].to_row][legal_moves[i].to_col].type # "King"

\* A move was made that gives check, and the moves that answer it are
\* generated: the attacked king is not taken.
CheckedKingHasMoves ==
  /\ pc = "play"
  /\ last.op = "make"
  /\ is_in_check(board, board.side_to_move)
  /\ legal_moves # <<>>

\* The move last made on the board, of a piece of the side that was to
\* move, advanced a pawn two rows from its starting row.
WasDoublePush ==
  LET m == last.m
      p == last.before.squares[m.from_row][m.from_col]
  IN /\ p.type = "Pawn"
     /\ m.from_col = m.to_col
     /\ \/ p.color = "White" /\ m.from_row = 1 /\ m.to_row = 3
        \/ p.color = "Black" /\ m.from_row = 6 /\ m.to_row = 4

\* C15: after make_move of a legal move the en passant target is set, row
\* and column both other than -1, exactly if the move advanced a pawn two
\* rows from its starting row; it is then the square the pawn passed over,
\* and after any other move it is (-1, -1).
EnPassantTargetFollowsDoublePush ==
  last.op \in {"make", "replay"} =>
    IF WasDoublePush
    THEN /\ board.en_passant_row = (last.m.from_row + last.m.to_row) \div 2
         /\ board.en_passant_col = last.m.from_col
         /\ board.en_passant_row # -1
         /\ board.en_passant_col # -1
    ELSE board.en_passant_row = -1 /\ board.en_passant_col = -1

\* A pawn was advanced two rows in a position that had a target, which the
\* move replaced.
DoublePushReplacedTarget ==
  /\ last.op = "make"
  /\ WasDoublePush
  /\ last.before.en_passant_row # -1
  /\ board.en_passant_col # last.before.en_passant_col

\* The castling rights of a board: white kingside and queenside, black
\* kingside and queenside.
Rights(b) ==
  << b.white_can_castle_kingside, b.white_can_castle_queenside,
     b.black_can_castle_kingside, b.black_can_castle_queenside >>

\* The right implies the king of the colour on column 4 of its back rank
\* and a rook of the colour on the corner.
RightHasKingAndRook(b, right, color, back_rank, corner) ==
  right => /\ b.squares[back_rank][4] = Piece("King", color)
           /\ b.squares[back_rank][corner] = Piece("Rook", color)

\* C16: in every board reached from the starting position by legal moves a
\* castling right that is true has the king of its colour on its starting
\* square and a rook of its colour on the matching corner, and make_move
\* turns no right from false to true.
RightsNeedKingAndRook ==
  /\ RightHasKingAndRook(board, board.white_can_castle_kingside, "White", 0, 7)
  /\ RightHasKingAndRook(board, board.white_can_castle_queenside, "White", 0, 0)
  /\ RightHasKingAndRook(board, board.black_can_castle_kingside, "Black", 7, 7)
  /\ RightHasKingAndRook(board, board.black_can_castle_queenside, "Black", 7, 0)
  /\ last.op \in {"make", "replay"} =>
       \A i \in 1..4 : Rights(board)[i] => Rights(last.before)[i]

\* A rook left its corner, or was captured on it, while the king had not
\* moved: that right is lost and the other of the colour is kept.
RookLostOneRight ==
  /\ last.op = "make"
  /\ last.before.squares[last.m.from_row][last.m.from_col].type # "King"
  /\ \E i \in 1..4 : Rights(last.before)[i] /\ ~Rights(board)[i]
  /\ \E i \in 1..4 : Rights(board)[i]

\* C17: generate_legal_moves returns a castling move only if the king is on
\* its original square, the right of that side is true, the squares between
\* king and rook are empty, the king is not in check, and neither the
\* square it passes over nor its destination is attacked by the opponent.
CastlingOnlyWhenAllowed ==
  pc = "play" =>
    \A m \in MovesOf(legal_moves) :
      RuleIsCastling(board, m) =>
        LET us == board.side_to_move
            back_row == IF us = "White" THEN 0 ELSE 7
            kingside == m.to_col > m.from_col
            rook_col == IF kingside THEN 7 ELSE 0
            via == IF kingside THEN 5 ELSE 3
        IN /\ m.from_row = back_row /\ m.from_col = 4 /\ m.to_row = back_row
           /\ RuleCastlingRight(board, us, kingside)
           /\ RulePathClear(board.squares, back_row, 4, back_row, rook_col)
           /\ ~RuleInCheck(board.squares, us)
           /\ ~RuleAttacked(board.squares, back_row, via, Opposite(us))
           /\ ~RuleAttacked(board.squares, back_row, m.to_col, Opposite(us))

\* select_move has returned to find_best_move: an iteration is over.
IterationOver == pc = "search" /\ Len(stack) = 1 /\ ret # NoRet

\* C18: find_best_move starts from the first legal move and replaces its
\* best move only by the result of an iteration that ended without the
\* abort flag; when an iteration ends with the flag set, find_best_move
\* returns the move it held before that iteration, which is the best move
\* of the last iteration completed or, if there is none, the first legal
\* move.
AbortReturnsCompletedIteration ==
  [][/\ (pc = "play" /\ pc' = "search") => stack'[1].best_move = legal_moves[1]
     /\ pc = "search" =>
          LET held == stack[1].best_move
              next_held == IF pc' = "search" THEN stack'[1].best_move ELSE best_move'
          IN /\ ~IterationOver => next_held = held
             /\ (IterationOver /\ g_search_aborted) => (pc' = "safety" /\ best_move' = held)
             /\ (IterationOver /\ ~g_search_aborted /\ Len(stack') <= 1)
                  => next_held = ret.value.best_move]_vars

\* The second iteration was aborted by the clock and is over; the first
\* was completed.
AbortedSecondIteration ==
  /\ IterationOver
  /\ g_search_aborted
  /\ stack[1].depth = 2
  /\ stack[1].best_score > NEG_INF
\* The calls in progress that have added the position after their candidate
\* to the repetition store and wait for the search of it: select_move and
\* negamax between add_position_to_history and
\* remove_last_position_from_history.
Pushed(frames) ==
  Cardinality({ i \in 1..Len(frames) :
                  /\ frames[i].fn \in {"select_move", "negamax"}
                  /\ frames[i].phase \in {"wait", "wait_lmr"} })

\* The repetition store without the positions of the calls in progress.
GamePositions(positions, frames) ==
  SubSeq(positions, 1, Len(positions) - Pushed(frames))

\* C19: during the search the repetition store is the store find_best_move
\* was called with, followed by one position for each call that has added
\* one and has not yet returned, so every position added is removed, the
\* last added first, before the call that added it returns; when
\* find_best_move returns the store is the store it was called with, also
\* when the search was aborted.  (The count map is the number of times a
\* hash stands in the list.)
RepetitionStoreIsRestored ==
  [][/\ (pc = "play" /\ pc' = "search") =>
          /\ g_position_history' = g_position_history
          /\ Pushed(stack') = 0
     /\ pc = "search" =>
          /\ Pushed(stack) <= Len(g_position_history)
          /\ IF pc' = "search"
             THEN /\ GamePositions(g_position_history', stack')
                       = GamePositions(g_position_history, stack)
                  /\ Len(g_position_history') > Len(g_position_history) =>
                       /\ Len(stack') = Len(stack) + 1
                       /\ g_position_history'
                            = Append(g_position_history, compute_zobrist(temp'))
             ELSE /\ Pushed(stack) = 0
                  /\ g_position_history' = g_position_history]_vars

\* An aborted call has returned while the two positions of its line are
\* still in the store.
AbortedWithPositionsInStore ==
  /\ pc = "search"
  /\ g_search_aborted
  /\ ret # NoRet
  /\ Pushed(stack) >= 2
\* The candidate of the call on top of the stack mates at once: the search
\* of the position after it has returned, not aborted, and the side to move
\* there is in check and has no legal move.
CandidateMatesAtOnce ==
  /\ pc = "search"
  /\ ret # NoRet
  /\ ~g_search_aborted
  /\ Top(SearchState).fn \in {"select_move", "negamax"}
  /\ Top(SearchState).phase = "wait"
  /\ attacks_is_in_check(temp, temp.side_to_move)
  /\ generate_legal_moves(temp) = <<>>

\* The best score of the call on top of the stack is a mate score for the
\* side to move, from a move that does not mate at once.
BestIsLongerMate ==
  LET f == Top(SearchState)
      position == unmake_move(temp, IF f.fn = "select_move" THEN f.legal_moves[f.idx]
                                    ELSE f.legal_moves[f.move_index], f.undo)
  IN /\ f.best_score >= MATE_THRESHOLD
     /\ ~Mates(position, f.best_move)

\* C20: within one search a checkmate delivered in fewer plies is scored
\* strictly higher for the mating side than one delivered in more plies:
\* when a move that mates at once is scored after a move that forces mate
\* later, its score is higher than the best score so far.
ShorterMateScoresHigher ==
  (CandidateMatesAtOnce /\ BestIsLongerMate) => -ret.value > Top(SearchState).best_score
\* C21: replacement is depth-preferring.  On every table the stores and
\* clears lead to, store(key, depth, ...) writes its arguments to the entry
\* at key & mask when the entry is empty, holds another key, or holds a
\* depth not greater than the incoming one; when the entry holds the same
\* key with a strictly greater depth, every field of it is as before.  No
\* other entry changes.
DepthPreferringReplacement ==
  \A key \in TTKeys, depth \in TTDepths, value \in TTValues, flag \in TTFlags,
     best \in TTMoves :
    LET slot == slot_of(tt, key)
        e == tt[slot]
        after == store(tt, key, depth, value, flag, best)
    IN /\ \A i \in DOMAIN tt : i # slot => after[i] = tt[i]
       /\ IF e = DefaultEntry \/ e.key # key \/ depth >= e.depth
          THEN /\ after[slot].key = key
               /\ after[slot].depth = depth
               /\ after[slot].value = value
               /\ after[slot].flag = flag
               /\ after[slot].has_move = (best # NullMove)
               /\ best # NullMove => after[slot].best_move = best
          ELSE after[slot] = e

\* A store has written an entry with a depth above the least one, so a
\* store for its key with a lesser depth finds the deeper entry.
DeeperEntryHeld ==
  \E key \in TTKeys, depth \in TTDepths :
    /\ StoredFor(key).op = "store"
    /\ tt[slot_of(tt, key)].key = key
    /\ tt[slot_of(tt, key)].depth > depth
\* C22: once g_search_aborted is set during a call of find_best_move, no
\* step of the search writes the transposition table: a negamax node that
\* returns with the flag set skips its g_tt.store.
AbortedSearchLeavesTable ==
  [][(pc = "search" /\ g_search_aborted) => g_tt' = g_tt]_vars

\* With the flag set, the search of the last move of a negamax node has
\* returned: the node is about to finish.
AbortedNodeFinishes ==
  /\ pc = "search"
  /\ g_search_aborted
  /\ ret # NoRet
  /\ Top(SearchState).fn = "negamax"
  /\ Top(SearchState).phase = "wait"
  /\ Top(SearchState).move_index = Len(Top(SearchState).legal_moves)
\* The call on top of the stack is at the head of its loop over the moves
\* it has ordered with calculate_move_score.
AtOrderedMoves ==
  /\ pc = "search"
  /\ Top(SearchState).fn \in {"select_move", "negamax"}
  /\ Top(SearchState).phase = "loop"

\* C23: a quiet move (no capture, no promotion) stored as a killer at the
\* depth of the node is scored 800 by calculate_move_score, whatever the
\* kind of the moving piece.
KillerScores800 ==
  AtOrderedMoves =>
    LET f == Top(SearchState)
        position == IF f.fn = "select_move" THEN board ELSE temp
    IN \A i \in 1..Len(f.legal_moves) :
         (/\ f.legal_moves[i].promotion = "NONE"
          /\ ~is_capture_move(position, f.legal_moves[i])
          /\ is_killer(g_killers, f.depth, f.legal_moves[i]))
           => ordering_score(g_killers, g_history, position, f.legal_moves[i], f.depth) = 800
\* An iteration of find_best_move is completed: select_move has returned,
\* the search was not aborted and is not repeated with the full window.
IterationCompleted ==
  /\ IterationOver
  /\ ~g_search_aborted
  /\ ~aspiration_failed(SearchState, stack[1], ret.value)

\* C24 as stated: the loop of find_best_move stops after a completed
\* iteration whose score is at least MATE_THRESHOLD or at most
\* -MATE_THRESHOLD.
StopsOnAnyMateScore ==
  [][(IterationCompleted /\ Abs(ret.value.score) >= MATE_THRESHOLD)
       => pc' = "safety"]_vars

\* C24 as amended: the loop of find_best_move stops after a completed
\* iteration whose score is at least MATE_THRESHOLD; after one whose score
\* is at most -MATE_THRESHOLD, the side to move being mated, it goes on to
\* the next depth like after any other score.
StopsOnOwnMateScore ==
  [][IterationCompleted =>
       /\ ret.value.score >= MATE_THRESHOLD => pc' = "safety"
       /\ ret.value.score <= -MATE_THRESHOLD =>
            /\ pc' = "search"
            /\ stack'[1].phase = "loop"
            /\ stack'[1].depth = stack[1].depth + 1
            /\ stack'[1].best_score = ret.value.score]_vars

\* An iteration is completed with the score of a side that is being mated.
CompletedBeingMated ==
  /\ IterationCompleted
  /\ ret.value.score <= -MATE_THRESHOLD
\* The moves made on the board from the root to the node being searched:
\* one for each call of select_move, negamax and quiescence_search that has
\* made its candidate and waits for the search of it.  The nesting of the
\* calls of negamax and quiescence_search is at least as deep.
LineLength(frames) ==
  Cardinality({ i \in 1..Len(frames) : frames[i].phase \in {"wait", "wait_lmr"} })

\* C25 as stated: in a call of find_best_move the line searched below the
\* root is never longer than max_depth + MAX_QS_DEPTH moves, also where
\* moves give check and receive the extension.
LineWithinPlumbDepth ==
  pc = "search" => LineLength(stack) <= stack[1].max_depth + MAX_QS_DEPTH

\* The moves of the line searched that negamax has extended: its candidates
\* that give check.
Extensions(frames) ==
  Cardinality({ i \in 1..Len(frames) :
                  /\ frames[i].fn = "negamax"
                  /\ frames[i].phase = "wait"
                  /\ frames[i].extension = 1 })

\* C25 as amended: the line searched below the root is never longer than
\* max_depth + MAX_QS_DEPTH moves plus one move for each move of the line
\* that negamax extended because it gives check.
LineWithinExtendedDepth ==
  pc = "search" =>
    LineLength(stack) <= stack[1].max_depth + MAX_QS_DEPTH + Extensions(stack)

\* The line searched is longer than max_depth + MAX_QS_DEPTH moves, one of
\* them extended.
LineBeyondPlumbDepth ==
  /\ pc = "search"
  /\ Extensions(stack) >= 1
  /\ LineLength(stack) > stack[1].max_depth + MAX_QS_DEPTH
\* The call on top of the stack is at the head of its loop, and the position
\* after its next candidate stands at least twice in the repetition store.
CandidateRepeatsTwice ==
  /\ AtOrderedMoves
  /\ LET f == Top(SearchState)
         position == IF f.fn = "select_move" THEN board ELSE temp
         candidate == IF f.fn = "select_move" THEN f.legal_moves[f.idx]
                      ELSE f.legal_moves[f.move_index]
     IN count_repetitions(g_position_history,
                          compute_zobrist(make_move(position, candidate))) >= 2

\* C26: a candidate whose position already stands at least twice in the
\* repetition store is not searched, and its score for the side that makes
\* it is -25: unless the call ends with it, the best score of the call
\* becomes the greater of the best score so far and -25.
RepetitionScoredAsSlightLoss ==
  [][(CandidateRepeatsTwice /\ ~g_search_aborted') =>
       /\ Len(stack') <= Len(stack)
       /\ Len(stack') = Len(stack) =>
            stack'[Len(stack)].best_score = Max2(Top(SearchState).best_score, -25)]_vars
\* C27: make_move with a move whose source square is empty leaves the board
\* as it was: squares, side to move, castling rights, en-passant target and
\* hash.  The last line parse_history replayed is such a move.
EmptySourceLeavesBoard ==
  (/\ last.op = "replay"
   /\ last.before.squares[last.m.from_row][last.m.from_col].color = "None")
    => board = last.before
\* C28: probe reports a miss on a table that was just constructed or
\* cleared, for every key, key 0 included: an entry is returned only for a
\* key given to an accepted store since the last clear.
ProbeHitsOnlyStoredKeys ==
  (tt_probed.op = "probe" /\ tt_probed.entry # NullEntry)
    => /\ StoredFor(tt_probed.key).op = "store"
       /\ StoredFor(tt_probed.key).key = tt_probed.key
\* The lines ls are, one after the other, legal moves from the position b.
RECURSIVE ReplaysLegally(_, _)
ReplaysLegally(b, ls) ==
  \/ ls = <<>>
  \/ /\ is_valid(generate_legal_moves(b), parse_move(Head(ls)))
     /\ ReplaysLegally(make_move(b, parse_move(Head(ls))), Tail(ls))

\* C29: for every entry of the opening book whose key replays as legal moves
\* from the starting position, the reply is one of the legal moves of the
\* position reached, and no key is listed with two different replies.
BookReplyIsLegalMove ==
  (/\ pc = "play"
   /\ last = NoOp \/ last.op = "replay"
   /\ BookHits(HistoryRead) # {}
   /\ ReplaysLegally(make_starting_position({}), HistoryRead))
    => /\ \A e \in BookHits(HistoryRead) : is_valid(legal_moves, parse_uci_move(e[2]))
       /\ Cardinality(BookHits(HistoryRead)) <= 1
\* C30: every call of negamax and of quiescence_search made during
\* find_best_move receives a window with alpha < beta, the calls select_move
\* makes for the later root moves included.
WindowIsOpen ==
  (/\ pc = "search"
   /\ stack # <<>>
   /\ stack[Len(stack)].fn \in {"negamax", "quiescence_search"}
   /\ stack[Len(stack)].phase = "enter")
    => stack[Len(stack)].alpha < stack[Len(stack)].beta

=============================================================================
